---- MODULE Spec2Model ----
(***************************************************************************)
(* Model of the frame acquisition / classification / health pipeline of    *)
(* the Maseru bridge camera server (src/unnamed/part_002, the current      *)
(* server; src/server.js holds earlier revisions of the same functions).   *)
(*                                                                         *)
(* The server is a single-threaded event loop.  Every action below is one  *)
(* run-to-completion piece of a handler: the code from one suspension      *)
(* point (a subprocess event, a timer, an await on the network) to the     *)
(* next.  Time is the value Date.now() returns, in milliseconds.           *)
(***************************************************************************)
EXTENDS Integers, Sequences, FiniteSets, TLC

(***************************************************************************)
(* Bounds of the model.                                                    *)
(***************************************************************************)
\* capture calls (captureFrame or smartCapture) that may be open at once;
\* a call stays open until its close handler has finished and its 25 s
\* timer has fired
MaxCalls == 2
\* capture subprocesses spawned in one run
MaxCaptures == 4
\* Date.now() when the server starts (any value far above the refresh
\* threshold: lastAngleChangeTime starts at 0)
StartTime == 4000000
\* observed advances of the clock in one run
MaxAdvances == 4
\* observed advances of the clock in a run of the scheduler alone
MaxAdvancesScheduler == 6
\* observed advances of the clock in a run with readers
MaxAdvancesReaders == 2
\* observed advances of the clock in a run after a restart
MaxAdvancesRestart == 2
\* config.maxBufferSize (20 in part_002:20, 12 in server.js:19), scaled
maxBufferSize == 2
\* frames in the buffer when the frame selection is studied on its own (below
\* the 20 of config.maxBufferSize, so that no frame has been evicted)
MaxBuffered == 4
\* observed advances of the clock in a run of the frame selection alone
MaxAdvancesSelection == 3
\* calls of analyzeTraffic observed in a run of the analysis cache
MaxRequests == 3
\* analysis requests that may be open (awaiting the detector or the backend) at once
MaxOpenRequests == 2
\* observed advances of the clock in a run of the analysis cache
MaxAdvancesCache == 2
\* frames in the buffer when a run of the analysis cache begins
MaxBufferedCache == 1
\* trafficHistory.MAX_HISTORY (10 in part_002:85), scaled
MAX_HISTORY == 4
\* trafficHistory.TREND_WINDOW (5 in part_002:86), scaled
TREND_WINDOW == 3
\* the readings from which the confidence is high (5 in part_002:131), scaled
\* with TREND_WINDOW
HIGH_CONFIDENCE_READINGS == 3
\* calls of addReading in one run
MaxReadings == 5
\* observed advances of the clock in a run of the trend tracker
MaxAdvancesTrends == 1
\* cameraStatus.STUCK_THRESHOLD (10 in part_002:243), scaled
STUCK_THRESHOLD == 2
\* cameraStatus.HISTORY_SIZE (15 in part_002:244), scaled
HISTORY_SIZE == 3

(***************************************************************************)
(* Program constants.                                                      *)
(***************************************************************************)
FAILURE_THRESHOLD == 3
BLUR_THRESHOLD_KB == 40
\* the outer setTimeout of a capture
KILL_TIMER_MS == 25000
\* spawn(..., { timeout: 30000 })
SPAWN_TIMEOUT_MS == 30000
\* tooLongSameAngle = timeSinceLastChange > 180000
REFRESH_MS == 180000
\* setInterval(smartCapture, 20000)
TICK_MS == 20000
\* a long quiet period (the 200000 ms of the scheduler scenario)
QUIET_MS == 200000
\* config.cacheTimeout
cacheTimeout == 120000
\* MAX_FRAME_AGE_MS = 10 * 60 * 1000
MAX_FRAME_AGE_MS == 600000
\* GET /api/frames: FRESH_THRESHOLD_MS = 10 * 60 * 1000
FRESH_THRESHOLD_MS == 600000
\* GET /api/frames: MAX_PRESERVED_AGE_MS = 60 * 60 * 1000
MAX_PRESERVED_AGE_MS == 3600000

ANGLE_TYPES == {"bridge", "wide", "processing", "useless"}
PreservedKeys == {"bridge", "processing", "wide"}

\* the byte sizes a captured JPEG may have: just below and at the blur threshold
ImageSizes == {BLUR_THRESHOLD_KB * 1024 - 1, BLUR_THRESHOLD_KB * 1024}

\* the steps by which time is observed to advance
TimeSteps == {TICK_MS, QUIET_MS}

\* ages, at the restart, of the rows an earlier run left in preserved_frames:
\* one tick short of 500 s, of the 10 minutes of MAX_FRAME_AGE_MS and of 700 s,
\* and the hour of MAX_PRESERVED_AGE_MS
DbAges == {480000, 580000, 680000, 3600000}

Calls == 1..MaxCalls

\* the open calls of analyzeTraffic
Requests == 1..MaxOpenRequests

VARIABLES
  now,                 \* Date.now()
  isCapturing,         \* the capture guard
  isClassifying,       \* the classifier guard
  screenshotBuffer,    \* sequence of frames
  preservedFrames,     \* angle -> frame or NoFrame
  cameraStatus,        \* consecutiveFailures, angleHistory, ..., status, stuckAngle
  lastCapturedAngle,   \* smartCapture's last seen non-useless angle ("null" at start)
  lastAngleChangeTime, \* smartCapture's time of the last angle change
  lastDecision,        \* history: the last line smartCapture logged, "Frame SAVED
                       \* (angle)" or "Frame skipped (angle)"
  call,                \* the open capture calls: closures of captureFrame/smartCapture
  nCaptures,           \* subprocesses spawned so far
  nAdvances,           \* advances of the clock so far
  committed,           \* history: every frame pushed onto the buffer, in push order
  lastOutcome,         \* history: how the last call of the external classifier ended
  returned,            \* history: what the last call that found the guard held returned
  lastImage,           \* history: the last image file a close handler read: the capture
                       \* that wrote it and its size in bytes
  readings,            \* trafficHistory.readings
  added,               \* history: every reading passed to addReading, in call order
  trend,               \* history: what analyzeTrends and getTrendSummary last returned
  latestAnalysis,      \* the cached automatic analysis (NoAnalysis for null)
  lastAnalysisTime,    \* the time kept with the cached analysis
  storedAt,            \* history: Date.now() when latestAnalysis was last assigned
  request,             \* the open calls of analyzeTraffic: their locals
  nRequests,           \* calls of analyzeTraffic so far
  reply                \* history: what analyzeTraffic last returned, and to which call

vars == <<now, isCapturing, isClassifying, screenshotBuffer, preservedFrames,
          cameraStatus, lastCapturedAngle, lastAngleChangeTime, call, nCaptures,
          nAdvances, committed, lastDecision, lastOutcome, returned, lastImage,
          readings, added, trend, latestAnalysis, lastAnalysisTime, storedAt,
          request, nRequests, reply>>

\* the state of the trend tracker
trendVars == <<readings, added, trend>>

\* the analysis cache and the calls of analyzeTraffic
cacheVars == <<latestAnalysis, lastAnalysisTime, storedAt, request, nRequests, reply>>

\* null for a frame (an empty preserved slot, a call without a frame yet)
NoFrame == [screenshot |-> 0, timestamp |-> 0, angleType |-> "null"]

\* nothing returned yet
NoReturn == [op |-> "none", ok |-> FALSE, screenshot |-> 0, frames |-> <<>>,
             notes |-> <<>>]

\* a free call slot
IdleCall == [kind |-> "none", pc |-> "idle", start |-> 0, timer |-> FALSE,
             frame |-> NoFrame]

Min(a, b) == IF a <= b THEN a ELSE b

Last(s) == s[Len(s)]

(***************************************************************************)
(* Pure functions of the program.                                          *)
(***************************************************************************)
\* array.slice(-n)
SliceLast(s, n) ==
  IF Len(s) <= n THEN s ELSE SubSeq(s, Len(s) - n + 1, Len(s))

\* mutant of isImageBlurry: the kilobyte taken as 1000 bytes
isImageBlurryDecimalKB(size) == size < BLUR_THRESHOLD_KB * 1000

\* sizeKB = length / 1024; sizeKB < BLUR_THRESHOLD_KB
isImageBlurry(size) == size < BLUR_THRESHOLD_KB * 1024

\* mutant of TrimBuffer: slice(0, maxBufferSize), which keeps the oldest frames
TrimBufferKeepOldest(buf) ==
  IF Len(buf) > maxBufferSize THEN SubSeq(buf, 1, maxBufferSize) ELSE buf

\* if (screenshotBuffer.length > config.maxBufferSize) slice(-maxBufferSize)
TrimBuffer(buf) ==
  IF Len(buf) > maxBufferSize THEN SliceLast(buf, maxBufferSize) ELSE buf

\* mutant of updateCameraStatus: the stuck-angle check made before the down check
updateCameraStatusStuckFirst(cs) ==
  LET recentAngles == SliceLast(cs.angleHistory, STUCK_THRESHOLD)
      uniqueAngles == {recentAngles[i] : i \in 1..Len(recentAngles)} \ {"useless"}
  IN IF Len(cs.angleHistory) >= STUCK_THRESHOLD /\ Cardinality(uniqueAngles) = 1
     THEN [cs EXCEPT !.status = "stuck_on_angle",
                     !.stuckAngle = CHOOSE a \in uniqueAngles : TRUE]
     ELSE IF cs.consecutiveFailures >= FAILURE_THRESHOLD
     THEN [cs EXCEPT !.status = "down", !.stuckAngle = "null"]
     ELSE [cs EXCEPT !.status = "operational", !.stuckAngle = "null"]

\* updateCameraStatus: the status and stuck angle for given counters
updateCameraStatus(cs) ==
  IF cs.consecutiveFailures >= FAILURE_THRESHOLD
  THEN [cs EXCEPT !.status = "down", !.stuckAngle = "null"]
  ELSE LET recentAngles == SliceLast(cs.angleHistory, STUCK_THRESHOLD)
           uniqueAngles == {recentAngles[i] : i \in 1..Len(recentAngles)} \ {"useless"}
       IN IF Len(cs.angleHistory) >= STUCK_THRESHOLD /\ Cardinality(uniqueAngles) = 1
          THEN [cs EXCEPT !.status = "stuck_on_angle",
                          !.stuckAngle = CHOOSE a \in uniqueAngles : TRUE]
          ELSE [cs EXCEPT !.status = "operational", !.stuckAngle = "null"]

\* how the calls of the external classifier can end: step 0 answers YES
\* ("useless"), step 1 answers YES ("wide"), step 2 answers BRIDGE, PROCESSING
\* or anything else ("other"), or one of the calls throws or times out
ClassifierOutcomes == {"useless", "wide", "bridge", "processing", "other", "throws"}

\* mutant of classifyFrameAngle: no catch, the classifier's error reaches the caller
classifyFrameAngleRethrows(outcome) ==
  CASE outcome = "wide" -> "wide"
    [] outcome = "bridge" -> "bridge"
    [] outcome = "processing" -> "processing"
    [] outcome = "throws" -> "raised"
    [] OTHER -> "useless"

\* classifyFrameAngle, once past its guard: the value it returns ("raised" would
\* be an exception that reaches its caller)
classifyFrameAngle(outcome) ==
  CASE outcome = "wide" -> "wide"
    [] outcome = "bridge" -> "bridge"
    [] outcome = "processing" -> "processing"
    [] outcome = "throws" -> "useless"
    [] OTHER -> "useless"

\* mutant of shouldPreserve: every classified frame is preserved
shouldPreserveAlways(angleType, keys) == TRUE

\* angleType !== 'useless' && preservedFrames.hasOwnProperty(angleType)
shouldPreserve(angleType, keys) ==
  angleType # "useless" /\ angleType \in keys

\* preservedFrames[angleType] = frameData (an assignment creates a missing key)
setPreserved(frames, frameData) ==
  [a \in DOMAIN frames \cup {frameData.angleType} |->
     IF a = frameData.angleType THEN frameData ELSE frames[a]]

\* angleHistory.push(angleType); if (length > HISTORY_SIZE) shift()
PushAngle(hist, angleType) ==
  LET h == Append(hist, angleType)
  IN IF Len(h) > HISTORY_SIZE THEN Tail(h) ELSE h

recordCaptureSuccess(cs, angleType, t) ==
  updateCameraStatus([cs EXCEPT !.consecutiveFailures = 0,
                                !.lastSuccessfulCapture = t,
                                !.angleHistory = PushAngle(cs.angleHistory, angleType)])

\* mutant of recordCaptureFailure: the counter raised without recomputing the status
recordCaptureFailureNoUpdate(cs) ==
  [cs EXCEPT !.consecutiveFailures = cs.consecutiveFailures + 1]

\* consecutiveFailures++; updateCameraStatus()
recordCaptureFailure(cs) ==
  updateCameraStatus([cs EXCEPT !.consecutiveFailures = cs.consecutiveFailures + 1])

(***************************************************************************)
(* trafficHistory: the trend tracker.  The code computes the mean and the  *)
(* variance of the totals in floating point; the model compares the same   *)
(* quantities exactly, on integers: with n readings of totals x[i] and sum *)
(* S, avgTotal > k is S > k * n, and the variance, the sum of the squares  *)
(* of (n * x[i] - S) over n^3, is compared through that sum.               *)
(***************************************************************************)
\* null for the counts of a detector that returned nothing
NoCounts == [LS_to_SA |-> -1, SA_to_LS |-> -1, total |-> -1]

\* what the detector answers for the bridge frame: nothing, or its counts
BridgeCounts ==
  {NoCounts,
   [LS_to_SA |-> 7, SA_to_LS |-> 3, total |-> 10],
   [LS_to_SA |-> 10, SA_to_LS |-> 20, total |-> 30],
   [LS_to_SA |-> 12, SA_to_LS |-> 21, total |-> 33]}

\* what the detector answers for the canopy frame (SA_to_LS_queue, LS_to_SA_area
\* and total): nothing, or its counts
CanopyCounts ==
  {NoCounts, [LS_to_SA |-> 1, SA_to_LS |-> 4, total |-> 5]}

\* null for reading.bridge and reading.canopy
NoBridge == [lsToSa |-> -1, saToLs |-> -1, total |-> -1]

\* the reading addReading builds from the counts (x || 0 is x for a count)
Reading(bridgeCounts, canopyCounts, t) ==
  [timestamp |-> t,
   bridge |-> IF bridgeCounts = NoCounts THEN NoBridge
              ELSE [lsToSa |-> bridgeCounts.LS_to_SA, saToLs |-> bridgeCounts.SA_to_LS,
                    total |-> bridgeCounts.total],
   canopy |-> IF canopyCounts = NoCounts THEN NoBridge
              ELSE [lsToSa |-> canopyCounts.LS_to_SA, saToLs |-> canopyCounts.SA_to_LS,
                    total |-> canopyCounts.total]]

\* mutant of addReading: slice(0, MAX_HISTORY), which keeps the oldest readings
addReadingKeepOldest(rs, reading) ==
  IF Len(rs) + 1 > MAX_HISTORY THEN SubSeq(Append(rs, reading), 1, MAX_HISTORY)
  ELSE Append(rs, reading)

\* readings.push(reading); if (readings.length > MAX_HISTORY) slice(-MAX_HISTORY)
addReading(rs, reading) ==
  IF Len(rs) + 1 > MAX_HISTORY THEN SliceLast(Append(rs, reading), MAX_HISTORY)
  ELSE Append(rs, reading)

\* r.bridge?.total || 0
TotalOf(r) == IF r.bridge = NoBridge THEN 0 ELSE r.bridge.total

RECURSIVE SumTotals(_)
SumTotals(rs) == IF rs = <<>> THEN 0 ELSE TotalOf(Head(rs)) + SumTotals(Tail(rs))

\* the sum over the readings of (n * total - S)^2: the variance times n^3
RECURSIVE SumSquares(_, _, _)
SumSquares(rs, n, S) ==
  IF rs = <<>> THEN 0
  ELSE (n * TotalOf(Head(rs)) - S) * (n * TotalOf(Head(rs)) - S)
         + SumSquares(Tail(rs), n, S)

\* mutant of flowSpeed: a high mean alone makes the flow slow
flowSpeedMeanFirst(recentReadings) ==
  LET n == Len(recentReadings)
      S == SumTotals(recentReadings)
      V == SumSquares(recentReadings, n, S)
  IN IF S > 10 * n THEN "slow"
     ELSE IF V > 5 * n * n * n THEN "moving_well"
     ELSE "normal"

\* the if / else if chain that sets trendInfo.flowSpeed
flowSpeed(recentReadings) ==
  LET n == Len(recentReadings)
      S == SumTotals(recentReadings)
      V == SumSquares(recentReadings, n, S)
  IN IF S > 10 * n /\ V < 2 * n * n * n THEN "slow"
     ELSE IF S > 15 * n /\ V < 3 * n * n * n THEN "very_slow"
     ELSE IF V > 5 * n * n * n THEN "moving_well"
     ELSE "normal"

\* mutant of directionTrend: the dead-band without its bounds
directionTrendInclusive(change) ==
  IF change >= 2 THEN "increasing"
  ELSE IF change <= -2 THEN "decreasing"
  ELSE "stable"

\* if (change > 2) 'increasing' else if (change < -2) 'decreasing' (else 'stable')
directionTrend(change) ==
  IF change > 2 THEN "increasing"
  ELSE IF change < -2 THEN "decreasing"
  ELSE "stable"

\* { trend: 'unknown', confidence: 'low', message: 'Not enough data yet' }; the
\* fields the object does not have are "undefined"
UnknownTrend ==
  [trend |-> "unknown", confidence |-> "low",
   lsToSa |-> [trend |-> "undefined", change |-> 0],
   saToLs |-> [trend |-> "undefined", change |-> 0],
   overall |-> "undefined", flowSpeed |-> "undefined", timePeriod |-> 0]

\* analyzeTrends (timePeriod is Math.round of the minutes between the end readings)
analyzeTrends(rs) ==
  IF Len(rs) < 2 THEN UnknownTrend
  ELSE LET recentReadings == SliceLast(rs, TREND_WINDOW)
           oldestReading == recentReadings[1]
           newestReading == recentReadings[Len(recentReadings)]
           hasCounts == oldestReading.bridge # NoBridge /\ newestReading.bridge # NoBridge
           lsToSaChange == newestReading.bridge.lsToSa - oldestReading.bridge.lsToSa
           saToLsChange == newestReading.bridge.saToLs - oldestReading.bridge.saToLs
           totalChange == lsToSaChange + saToLsChange
       IN [trend |-> "undefined",
           confidence |-> IF Len(rs) >= HIGH_CONFIDENCE_READINGS THEN "high" ELSE "medium",
           lsToSa |-> IF hasCounts
                      THEN [trend |-> directionTrend(lsToSaChange), change |-> lsToSaChange]
                      ELSE [trend |-> "stable", change |-> 0],
           saToLs |-> IF hasCounts
                      THEN [trend |-> directionTrend(saToLsChange), change |-> saToLsChange]
                      ELSE [trend |-> "stable", change |-> 0],
           overall |-> IF hasCounts /\ totalChange > 3 THEN "building_up"
                       ELSE IF hasCounts /\ totalChange < -3 THEN "clearing"
                       ELSE "stable",
           flowSpeed |-> IF hasCounts THEN flowSpeed(recentReadings) ELSE "normal",
           timePeriod |-> (newestReading.timestamp - oldestReading.timestamp + 30000)
                            \div 60000]

\* the empty string of getTrendSummary
NoSummary == [parts |-> <<>>, minutes |-> -1]

\* mutant of getTrendSummary: no test for the unknown result
getTrendSummaryOfAny(rs) ==
  IF analyzeTrends(rs).trend = "unknown"
  THEN [parts |-> <<"Not enough data yet">>, minutes |-> -1]
  ELSE NoSummary

\* getTrendSummary: the sentences joined into the summary, and the minutes of
\* "(based on last N minutes)" (-1 without it)
getTrendSummary(rs) ==
  LET trends == analyzeTrends(rs)
      speed == CASE trends.flowSpeed = "slow" -> <<"Traffic appears to be moving slowly">>
                 [] trends.flowSpeed = "very_slow" -> <<"Traffic appears stuck or very slow">>
                 [] trends.flowSpeed = "moving_well" -> <<"Traffic is flowing steadily">>
                 [] OTHER -> <<>>
      ls == CASE trends.lsToSa.trend = "increasing" -> <<"LS->SA queue is building up">>
              [] trends.lsToSa.trend = "decreasing" -> <<"LS->SA queue is clearing">>
              [] OTHER -> <<>>
      sa == CASE trends.saToLs.trend = "increasing" -> <<"SA->LS queue is building up">>
              [] trends.saToLs.trend = "decreasing" -> <<"SA->LS queue is clearing">>
              [] OTHER -> <<>>
      summary == speed \o ls \o sa
      all == IF summary = <<>> /\ trends.overall = "building_up"
             THEN <<"Traffic is building up overall">>
             ELSE IF summary = <<>> /\ trends.overall = "clearing"
             THEN <<"Traffic is clearing overall">>
             ELSE summary
  IN IF trends.trend = "unknown" THEN NoSummary
     ELSE IF Len(all) > 0 /\ trends.confidence = "high"
     THEN [parts |-> all, minutes |-> trends.timePeriod]
     ELSE IF Len(all) > 0 THEN [parts |-> all, minutes |-> -1]
     ELSE NoSummary

\* nothing returned by the trend tracker yet
NoTrend == [trendInfo |-> [UnknownTrend EXCEPT !.trend = "none"],
            trendSummary |-> NoSummary]

(***************************************************************************)
(* Initial state: the module-level declarations.                           *)
(***************************************************************************)
\* null for an analysis
NoAnalysis ==
  [success |-> FALSE, message |-> "null", timestamp |-> 0, frameTimestamp |-> 0,
   framesAnalyzed |-> 0, cached |-> FALSE, cameraStatus |-> "null"]

\* no call of analyzeTraffic in this slot
IdleRequest ==
  [pc |-> "idle", id |-> 0, userQuestion |-> FALSE, now |-> 0, framesToUse |-> <<>>]

\* let latestAnalysis = null; let lastAnalysisTime = 0; no call of analyzeTraffic yet
InitCacheVars ==
  /\ latestAnalysis = NoAnalysis
  /\ lastAnalysisTime = 0
  /\ storedAt = 0
  /\ request = [r \in Requests |-> IdleRequest]
  /\ nRequests = 0
  /\ reply = [id |-> 0, userQuestion |-> FALSE, value |-> NoAnalysis]

Init ==
  /\ now = StartTime
  /\ isCapturing = FALSE
  /\ isClassifying = FALSE
  /\ screenshotBuffer = <<>>
  /\ preservedFrames = [a \in PreservedKeys |-> NoFrame]
  /\ cameraStatus = [consecutiveFailures |-> 0, angleHistory |-> <<>>,
                     lastSuccessfulCapture |-> 0, status |-> "operational",
                     stuckAngle |-> "null"]
  /\ lastCapturedAngle = "null"
  /\ lastAngleChangeTime = 0
  /\ call = [c \in Calls |-> IdleCall]
  /\ nCaptures = 0
  /\ nAdvances = 0
  /\ committed = <<>>
  /\ lastDecision = [angleType |-> "null", saved |-> FALSE]
  /\ lastOutcome = "none"
  /\ returned = NoReturn
  /\ lastImage = [screenshot |-> 0, size |-> 0]
  /\ readings = <<>>
  /\ added = <<>>
  /\ trend = NoTrend
  /\ InitCacheVars


(***************************************************************************)
(* Helpers shared by captureFrame and smartCapture (the two functions      *)
(* repeat the same subprocess, error and timer code).                      *)
(***************************************************************************)
\* slots are taken lowest first
FreeSlot(c) ==
  /\ call[c].pc = "idle"
  /\ \A d \in Calls : d < c => call[d].pc # "idle"

\* the call's handler has run to its end; the slot is held while its timer is armed
Finished(cr) ==
  IF cr.timer THEN [cr EXCEPT !.pc = "done", !.frame = NoFrame] ELSE IdleCall

\* number of ffmpeg subprocesses running
InFlight == Cardinality({c \in Calls : call[c].pc = "ffmpeg"})

\* isCapturing = true; spawn('ffmpeg', ...); setTimeout(..., 25000)
Spawn(c, kind) ==
  /\ FreeSlot(c)
  /\ nCaptures < MaxCaptures
  /\ isCapturing' = TRUE
  /\ nCaptures' = nCaptures + 1
  /\ call' = [call EXCEPT ![c] = [kind |-> kind, pc |-> "ffmpeg", start |-> now,
                                  timer |-> TRUE,
                                  frame |-> [NoFrame EXCEPT !.screenshot = nCaptures + 1]]]
  /\ UNCHANGED <<cacheVars, trendVars, lastImage, lastOutcome, returned, now, isClassifying, screenshotBuffer, preservedFrames, cameraStatus,
                 lastCapturedAngle, lastAngleChangeTime, nAdvances, committed, lastDecision>>

\* the subprocess can still deliver a frame: it is running, it took some time,
\* and spawn's own timeout has not killed it
CanSucceed(c) ==
  /\ call[c].pc = "ffmpeg"
  /\ now > call[c].start
  /\ now < call[c].start + SPAWN_TIMEOUT_MS

\* the else branch and the catch branch of the close handler
CloseFailed(c) ==
  /\ isCapturing' = FALSE
  /\ cameraStatus' = recordCaptureFailure(cameraStatus)
  /\ call' = [call EXCEPT ![c] = Finished(call[c])]
  /\ UNCHANGED <<cacheVars, trendVars, lastImage, lastOutcome, returned, now, isClassifying, screenshotBuffer, preservedFrames,
                 lastCapturedAngle, lastAngleChangeTime, nCaptures, nAdvances, committed, lastDecision>>

\* if (isImageBlurry(imageBuffer)) { resolve(...); return; }
CloseBlurry(c) ==
  /\ isCapturing' = FALSE
  /\ call' = [call EXCEPT ![c] = Finished(call[c])]
  /\ UNCHANGED <<lastOutcome, returned, now, isClassifying, screenshotBuffer, preservedFrames, cameraStatus,
                 lastCapturedAngle, lastAngleChangeTime, nCaptures, nAdvances, committed, lastDecision>>

\* mutant of CloseClassify: classifyFrameAngle without its isClassifying guard
CloseClassifyUnguarded(c) ==
  /\ isCapturing' = FALSE
  /\ isClassifying' = FALSE
  /\ call' = [call EXCEPT ![c].pc = "classifying", ![c].frame.timestamp = now]
  /\ UNCHANGED <<lastOutcome, returned, now, screenshotBuffer, preservedFrames, cameraStatus,
                 lastCapturedAngle, lastAngleChangeTime, nCaptures, nAdvances, committed, lastDecision>>

\* classifyFrameAngle is entered with the guard free: the call now awaits the classifier
CloseClassify(c) ==
  /\ isCapturing' = FALSE
  /\ isClassifying' = TRUE
  /\ call' = [call EXCEPT ![c].pc = "classifying", ![c].frame.timestamp = now]
  /\ UNCHANGED <<lastOutcome, returned, now, screenshotBuffer, preservedFrames, cameraStatus,
                 lastCapturedAngle, lastAngleChangeTime, nCaptures, nAdvances, committed, lastDecision>>

\* the external classifier's call ends: an answer comes over the network, so
\* after the frame was read; a call can throw at once
ClassifierEnds(c, outcome) ==
  /\ outcome # "throws" => now > call[c].frame.timestamp
  /\ lastOutcome' = outcome

\* an exception out of classifyFrameAngle would land in the close handler's catch:
\* recordCaptureFailure and resolve (isClassifying is reset by the finally)
ClassifyRaised(c) ==
  /\ isClassifying' = FALSE
  /\ cameraStatus' = recordCaptureFailure(cameraStatus)
  /\ call' = [call EXCEPT ![c] = Finished(call[c])]
  /\ UNCHANGED <<returned, now, screenshotBuffer, preservedFrames, lastCapturedAngle,
                 lastAngleChangeTime, nCaptures, nAdvances, committed>>

\* ffmpeg.on('error'): the guard is released and a failure recorded; Node may or
\* may not emit 'close' (with a negative code) after it
OnError(c, closeFollows) ==
  /\ call[c].pc = "ffmpeg"
  /\ isCapturing' = FALSE
  /\ cameraStatus' = recordCaptureFailure(cameraStatus)
  /\ call' = [call EXCEPT ![c] = IF closeFollows THEN [call[c] EXCEPT !.pc = "errored"]
                                 ELSE Finished(call[c])]
  /\ UNCHANGED <<cacheVars, trendVars, lastImage, lastOutcome, returned, now, isClassifying, screenshotBuffer, preservedFrames,
                 lastCapturedAngle, lastAngleChangeTime, nCaptures, nAdvances, committed, lastDecision>>

\* setTimeout(() => { if (isCapturing) { ffmpeg.kill('SIGKILL'); isCapturing = false;
\* resolve(...) } }, 25000): the kill reaches only this call's own subprocess
OnTimeout(c) ==
  /\ call[c].timer
  /\ now = call[c].start + KILL_TIMER_MS
  /\ isCapturing' = FALSE
  /\ call' = [call EXCEPT ![c] =
                IF call[c].pc = "done" THEN IdleCall
                ELSE IF isCapturing /\ call[c].pc = "ffmpeg"
                     THEN [call[c] EXCEPT !.pc = "closing", !.timer = FALSE]
                     ELSE [call[c] EXCEPT !.timer = FALSE]]
  /\ UNCHANGED <<cacheVars, trendVars, lastImage, lastOutcome, returned, now, isClassifying, screenshotBuffer, preservedFrames, cameraStatus,
                 lastCapturedAngle, lastAngleChangeTime, nCaptures, nAdvances, committed, lastDecision>>


(***************************************************************************)
(* captureFrame: the request-triggered capture (also the first capture of  *)
(* startBackgroundCapture).                                                *)
(***************************************************************************)
\* if (isCapturing) return the latest screenshot; else spawn
captureFrame(c) ==
  /\ ~isCapturing
  /\ Spawn(c, "req")

\* screenshotBuffer.push(frameData); preservedFrames[angleType] = frameData when
\* the angle is not useless; then either the await on the upload, or (useless)
\* straight on to the trim, recordCaptureSuccess and resolve
CaptureFrameCommit(c, frameData, classifying) ==
  /\ isClassifying' = classifying
  /\ committed' = Append(committed, frameData)
  /\ IF shouldPreserve(frameData.angleType, DOMAIN preservedFrames)
     THEN /\ screenshotBuffer' = Append(screenshotBuffer, frameData)
          /\ preservedFrames' = setPreserved(preservedFrames, frameData)
          /\ call' = [call EXCEPT ![c].pc = "uploading", ![c].frame = frameData]
          /\ UNCHANGED cameraStatus
     ELSE /\ screenshotBuffer' = TrimBuffer(Append(screenshotBuffer, frameData))
          /\ cameraStatus' = recordCaptureSuccess(cameraStatus, frameData.angleType, now)
          /\ call' = [call EXCEPT ![c] = Finished(call[c])]
          /\ UNCHANGED preservedFrames
  /\ UNCHANGED <<returned, now, lastCapturedAngle, lastAngleChangeTime, nCaptures, nAdvances, lastDecision>>

\* ffmpeg.on('close'): isCapturing = false, then by exit code, file, blur (the
\* size of the image read from the file) and the classifier guard.  A classifier that is busy answers useless at once, and the
\* handler runs on to its commit in the same turn of the event loop.
CaptureFrameOnClose(c) ==
  /\ call[c].kind = "req"
  /\ call[c].pc \in {"ffmpeg", "closing", "errored"}
  /\ \/ CloseFailed(c)
     \/ /\ CanSucceed(c)
        /\ \E size \in ImageSizes :
             /\ lastImage' = [screenshot |-> call[c].frame.screenshot, size |-> size]
             /\ UNCHANGED <<cacheVars, trendVars, cacheVars>>
             /\ IF isImageBlurry(size) THEN CloseBlurry(c)
                ELSE IF ~isClassifying THEN CloseClassify(c)
                ELSE /\ isCapturing' = FALSE
                     /\ UNCHANGED lastOutcome
                     /\ CaptureFrameCommit(c, [call[c].frame EXCEPT !.timestamp = now,
                                                                    !.angleType = "useless"],
                                           isClassifying)

\* mutant of CaptureFrameClassified: classifyFrameAngle without its finally
CaptureFrameClassifiedNoFinally(c) ==
  /\ call[c].kind = "req"
  /\ call[c].pc = "classifying"
  /\ \E outcome \in ClassifierOutcomes :
       /\ ClassifierEnds(c, outcome)
       /\ CaptureFrameCommit(c, [call[c].frame EXCEPT
                                   !.angleType = classifyFrameAngle(outcome)], TRUE)
  /\ UNCHANGED <<isCapturing, lastImage, trendVars, cacheVars>>

\* classifyFrameAngle returns (useless when the classifier threw), isClassifying =
\* false in its finally, and the handler runs on to its commit
CaptureFrameClassified(c) ==
  /\ call[c].kind = "req"
  /\ call[c].pc = "classifying"
  /\ \E outcome \in ClassifierOutcomes :
       /\ ClassifierEnds(c, outcome)
       /\ IF classifyFrameAngle(outcome) = "raised"
          THEN /\ ClassifyRaised(c)
               /\ UNCHANGED lastDecision
          ELSE CaptureFrameCommit(c, [call[c].frame EXCEPT
                                        !.angleType = classifyFrameAngle(outcome)], FALSE)
  /\ UNCHANGED <<isCapturing, lastImage, trendVars, cacheVars>>

\* the awaits on uploadFrameToStorage / updatePreservedFrame / logFrameHistory
\* return (none of them throws): trim, recordCaptureSuccess, resolve
CaptureFrameUploaded(c) ==
  /\ call[c].kind = "req"
  /\ call[c].pc = "uploading"
  /\ screenshotBuffer' = TrimBuffer(screenshotBuffer)
  /\ cameraStatus' = recordCaptureSuccess(cameraStatus, call[c].frame.angleType, now)
  /\ call' = [call EXCEPT ![c] = Finished(call[c])]
  /\ UNCHANGED <<cacheVars, trendVars, lastImage, lastOutcome, returned, now, isCapturing, isClassifying, preservedFrames, lastCapturedAngle,
                 lastAngleChangeTime, nCaptures, nAdvances, committed, lastDecision>>

CaptureFrameOnError(c) ==
  /\ call[c].kind = "req"
  /\ \E closeFollows \in BOOLEAN : OnError(c, closeFollows)

CaptureFrameOnTimeout(c) ==
  /\ call[c].kind = "req"
  /\ OnTimeout(c)


(***************************************************************************)
(* smartCapture: the background scheduler's tick (setInterval, 20000 ms).  *)
(* A tick that the model does not take is a tick whose frame was blurry:   *)
(* it changes no state.                                                    *)
(***************************************************************************)
\* if (isCapturing) return; else spawn
smartCapture(c) ==
  /\ ~isCapturing
  /\ Spawn(c, "tick")

\* const isNewAngle = angleType !== lastCapturedAngle && angleType !== 'useless'
isNewAngle(angleType, lastAngle) ==
  angleType # lastAngle /\ angleType # "useless"

\* const tooLongSameAngle = (timestamp - lastAngleChangeTime) > 180000
tooLongSameAngle(timestamp, lastChange) ==
  timestamp - lastChange > REFRESH_MS

\* mutant of shouldSave: the refresh branch without its useless check
shouldSaveAnyAngle(angleType, timestamp, lastAngle, lastChange) ==
  isNewAngle(angleType, lastAngle) \/ tooLongSameAngle(timestamp, lastChange)

\* the if / else if chain that sets shouldSave
shouldSave(angleType, timestamp, lastAngle, lastChange) ==
  IF isNewAngle(angleType, lastAngle) THEN TRUE
  ELSE IF tooLongSameAngle(timestamp, lastChange) /\ angleType # "useless" THEN TRUE
  ELSE FALSE

\* the decision and what follows it, up to the next await or the end of the handler
SmartCaptureDecide(c, frameData, classifying) ==
  /\ isClassifying' = classifying
  /\ lastDecision' = [angleType |-> frameData.angleType,
                      saved |-> shouldSave(frameData.angleType, frameData.timestamp,
                                           lastCapturedAngle, lastAngleChangeTime)]
  /\ lastAngleChangeTime' =
       IF isNewAngle(frameData.angleType, lastCapturedAngle)
       THEN frameData.timestamp ELSE lastAngleChangeTime
  /\ IF shouldSave(frameData.angleType, frameData.timestamp,
                   lastCapturedAngle, lastAngleChangeTime)
     THEN /\ committed' = Append(committed, frameData)
          /\ IF shouldPreserve(frameData.angleType, DOMAIN preservedFrames)
             THEN /\ screenshotBuffer' = Append(screenshotBuffer, frameData)
                  /\ preservedFrames' = setPreserved(preservedFrames, frameData)
                  /\ call' = [call EXCEPT ![c].pc = "uploading", ![c].frame = frameData]
                  /\ UNCHANGED <<cameraStatus, lastCapturedAngle>>
             ELSE /\ screenshotBuffer' = TrimBuffer(Append(screenshotBuffer, frameData))
                  /\ cameraStatus' =
                       recordCaptureSuccess(cameraStatus, frameData.angleType, now)
                  /\ call' = [call EXCEPT ![c] = Finished(call[c])]
                  /\ UNCHANGED <<preservedFrames, lastCapturedAngle>>
     ELSE /\ lastCapturedAngle' =
               IF frameData.angleType # "useless" THEN frameData.angleType
               ELSE lastCapturedAngle
          /\ call' = [call EXCEPT ![c] = Finished(call[c])]
          /\ UNCHANGED <<screenshotBuffer, preservedFrames, cameraStatus, committed>>
  /\ UNCHANGED <<returned, now, nCaptures, nAdvances>>

SmartCaptureOnClose(c) ==
  /\ call[c].kind = "tick"
  /\ call[c].pc \in {"ffmpeg", "closing", "errored"}
  /\ \/ CloseFailed(c)
     \/ /\ CanSucceed(c)
        /\ \E size \in ImageSizes :
             /\ lastImage' = [screenshot |-> call[c].frame.screenshot, size |-> size]
             /\ UNCHANGED <<cacheVars, trendVars, cacheVars>>
             /\ IF isImageBlurry(size) THEN CloseBlurry(c)
                ELSE IF ~isClassifying THEN CloseClassify(c)
                ELSE /\ isCapturing' = FALSE
                     /\ UNCHANGED lastOutcome
                     /\ SmartCaptureDecide(c, [call[c].frame EXCEPT !.timestamp = now,
                                                                    !.angleType = "useless"],
                                           isClassifying)

SmartCaptureClassified(c) ==
  /\ call[c].kind = "tick"
  /\ call[c].pc = "classifying"
  /\ \E outcome \in ClassifierOutcomes :
       /\ ClassifierEnds(c, outcome)
       /\ IF classifyFrameAngle(outcome) = "raised"
          THEN /\ ClassifyRaised(c)
               /\ UNCHANGED lastDecision
          ELSE SmartCaptureDecide(c, [call[c].frame EXCEPT
                                        !.angleType = classifyFrameAngle(outcome)], FALSE)
  /\ UNCHANGED <<isCapturing, lastImage, trendVars, cacheVars>>

\* after the upload awaits: trim, recordCaptureSuccess, lastCapturedAngle = angleType
SmartCaptureUploaded(c) ==
  /\ call[c].kind = "tick"
  /\ call[c].pc = "uploading"
  /\ screenshotBuffer' = TrimBuffer(screenshotBuffer)
  /\ cameraStatus' = recordCaptureSuccess(cameraStatus, call[c].frame.angleType, now)
  /\ lastCapturedAngle' = call[c].frame.angleType
  /\ call' = [call EXCEPT ![c] = Finished(call[c])]
  /\ UNCHANGED <<cacheVars, trendVars, lastImage, lastOutcome, returned, now, isCapturing, isClassifying, preservedFrames,
                 lastAngleChangeTime, nCaptures, nAdvances, committed, lastDecision>>

SmartCaptureOnError(c) ==
  /\ call[c].kind = "tick"
  /\ \E closeFollows \in BOOLEAN : OnError(c, closeFollows)

SmartCaptureOnTimeout(c) ==
  /\ call[c].kind = "tick"
  /\ OnTimeout(c)

(***************************************************************************)
(* Time.  Date.now() moves on by a step, but not past the moment a pending *)
(* timer is due or spawn's timeout kills a running subprocess; a killed    *)
(* subprocess closes before any time is observed to pass.  The long step   *)
(* is a quiet period: no capture call is open during it.                   *)
(***************************************************************************)
Deadlines ==
  {call[c].start + KILL_TIMER_MS : c \in {d \in Calls : call[d].timer}}
    \cup {call[c].start + SPAWN_TIMEOUT_MS : c \in {d \in Calls : call[d].pc = "ffmpeg"}}

Advance(d, limit) ==
  LET target == now + d
      next == IF \E t \in Deadlines : t < target
              THEN CHOOSE t \in Deadlines : \A u \in Deadlines : t <= u
              ELSE target
  IN /\ \A c \in Calls : call[c].pc \notin {"closing", "errored"}
     /\ d = QUIET_MS => \A c \in Calls : call[c].pc = "idle"
     /\ nAdvances < limit
     /\ next > now
     /\ now' = next
     /\ nAdvances' = nAdvances + 1
     /\ UNCHANGED <<cacheVars, trendVars, lastImage, lastOutcome, returned, isCapturing, isClassifying, screenshotBuffer, preservedFrames,
                    cameraStatus, lastCapturedAngle, lastAngleChangeTime, call,
                    nCaptures, committed, lastDecision>>

AdvanceTime(d) ==
  /\ d \in TimeSteps
  /\ Advance(d, MaxAdvances)

Next ==
  \/ \E c \in Calls : captureFrame(c)
  \/ \E c \in Calls : CaptureFrameOnClose(c)
  \/ \E c \in Calls : CaptureFrameClassified(c)
  \/ \E c \in Calls : CaptureFrameUploaded(c)
  \/ \E c \in Calls : CaptureFrameOnError(c)
  \/ \E c \in Calls : CaptureFrameOnTimeout(c)
  \/ \E c \in Calls : smartCapture(c)
  \/ \E c \in Calls : SmartCaptureOnClose(c)
  \/ \E c \in Calls : SmartCaptureClassified(c)
  \/ \E c \in Calls : SmartCaptureUploaded(c)
  \/ \E c \in Calls : SmartCaptureOnError(c)
  \/ \E c \in Calls : SmartCaptureOnTimeout(c)
  \/ \E d \in TimeSteps : AdvanceTime(d)

Spec == Init /\ [][Next]_vars

(***************************************************************************)
(* The scheduler alone: no request arrives, and the run is observed longer *)
(* (the refresh rule needs a quiet period and the ticks after it).         *)
(***************************************************************************)
SchedulerAdvanceTime(d) ==
  /\ d \in TimeSteps
  /\ Advance(d, MaxAdvancesScheduler)

NextScheduler ==
  \/ \E c \in Calls : smartCapture(c)
  \/ \E c \in Calls : SmartCaptureOnClose(c)
  \/ \E c \in Calls : SmartCaptureClassified(c)
  \/ \E c \in Calls : SmartCaptureUploaded(c)
  \/ \E c \in Calls : SmartCaptureOnError(c)
  \/ \E c \in Calls : SmartCaptureOnTimeout(c)
  \/ \E d \in TimeSteps : SchedulerAdvanceTime(d)

SpecScheduler == Init /\ [][NextScheduler]_vars


(***************************************************************************)
(* A restart: start() awaits loadPreservedFramesFromDB before it starts    *)
(* the scheduler and listens for requests, so the rows an earlier run left *)
(* in the preserved_frames table are in memory before the first capture.   *)
(***************************************************************************)
\* for each row: preservedFrames[row.angle_type] = { screenshot: the bytes
\* downloaded from storage, timestamp: getTime of the row's timestamp, angleType:
\* row.angle_type }.  The rows were upserted by updatePreservedFrame, one per angle
\* type that was preserved, with the capture timestamp (toISOString keeps the
\* milliseconds).
loadPreservedFramesFromDB(rows) ==
  /\ nCaptures = 0
  /\ nAdvances = 0
  /\ returned = NoReturn
  /\ \A a \in DOMAIN preservedFrames : preservedFrames[a] = NoFrame
  /\ preservedFrames' =
       [a \in DOMAIN preservedFrames \cup DOMAIN rows |->
          IF a \in DOMAIN rows
          THEN [screenshot |-> 0, timestamp |-> rows[a], angleType |-> a]
          ELSE preservedFrames[a]]
  /\ UNCHANGED <<now, isCapturing, isClassifying, screenshotBuffer, cameraStatus,
                 lastCapturedAngle, lastAngleChangeTime, call, nCaptures, nAdvances,
                 committed, lastDecision, lastOutcome, returned, lastImage,
                 trendVars, cacheVars>>

RestartAdvanceTime(d) ==
  /\ d \in TimeSteps
  /\ Advance(d, MaxAdvancesRestart)

NextRestart ==
  \/ \E a \in PreservedKeys : \E age \in DbAges :
       loadPreservedFramesFromDB([k \in {a} |-> StartTime - age])
  \/ \E c \in Calls : captureFrame(c)
  \/ \E c \in Calls : CaptureFrameOnClose(c)
  \/ \E c \in Calls : CaptureFrameClassified(c)
  \/ \E c \in Calls : CaptureFrameUploaded(c)
  \/ \E c \in Calls : CaptureFrameOnError(c)
  \/ \E c \in Calls : CaptureFrameOnTimeout(c)
  \/ \E c \in Calls : smartCapture(c)
  \/ \E c \in Calls : SmartCaptureOnClose(c)
  \/ \E c \in Calls : SmartCaptureClassified(c)
  \/ \E c \in Calls : SmartCaptureUploaded(c)
  \/ \E c \in Calls : SmartCaptureOnError(c)
  \/ \E c \in Calls : SmartCaptureOnTimeout(c)
  \/ \E d \in TimeSteps : RestartAdvanceTime(d)

SpecRestart == Init /\ [][NextRestart]_vars


(***************************************************************************)
(* The readers: the frame selection of analyzeTraffic (a request with a    *)
(* user question, which does not use the analysis cache) and the frame     *)
(* list of GET /api/frames; and the two capture functions called while the *)
(* capture guard is held.  None of them writes the shared state; the model *)
(* records what they return.                                               *)
(***************************************************************************)
\* if (!frame || !frame.timestamp) return false; return frameAge <= MAX_FRAME_AGE_MS
isFrameFresh(frame, t) ==
  /\ frame # NoFrame
  /\ frame.timestamp # 0
  /\ t - frame.timestamp <= MAX_FRAME_AGE_MS

\* array.filter(f => f.angleType === a)
FramesOfAngle(frames, a) == SelectSeq(frames, LAMBDA f : f.angleType = a)

\* array.reverse()
Reverse(frames) == [i \in 1..Len(frames) |-> frames[Len(frames) + 1 - i]]

\* screenshotBuffer.filter(f => f.angleType !== ANGLE_TYPES.USELESS)
usefulFrames(buf) == SelectSeq(buf, LAMBDA f : f.angleType # "useless")

\* mutant of selectAngle: the preserved frame used whatever its age
selectAngleAnyAge(buf, preserved, t, a) ==
  IF Len(FramesOfAngle(usefulFrames(buf), a)) > 0
  THEN [frames |-> <<Last(FramesOfAngle(usefulFrames(buf), a))>>, notes |-> <<"buffer">>]
  ELSE IF preserved[a] # NoFrame
  THEN [frames |-> <<preserved[a]>>, notes |-> <<"preserved">>]
  ELSE [frames |-> <<>>, notes |-> <<>>]

\* one turn of the loop over anglePriority: the entry pushed onto framesToUse and
\* the one pushed onto anglesUsed ("preserved" for angleType + ' (preserved)')
selectAngle(buf, preserved, t, a) ==
  IF Len(FramesOfAngle(usefulFrames(buf), a)) > 0
  THEN [frames |-> <<Last(FramesOfAngle(usefulFrames(buf), a))>>, notes |-> <<"buffer">>]
  ELSE IF preserved[a] # NoFrame /\ isFrameFresh(preserved[a], t)
  THEN [frames |-> <<preserved[a]>>, notes |-> <<"preserved">>]
  ELSE [frames |-> <<>>, notes |-> <<>>]

\* the angle with the most buffered frames; Object.entries runs over the angles in
\* the order in which they first appear, and a later angle wins only with more
bestAngle(useful) ==
  LET angles == {useful[i].angleType : i \in 1..Len(useful)}
      count(a) == Len(FramesOfAngle(useful, a))
      firstAt(a) == CHOOSE i \in 1..Len(useful) :
                      /\ useful[i].angleType = a
                      /\ \A j \in 1..(i - 1) : useful[j].angleType # a
      maxima == {a \in angles : \A b \in angles : count(b) <= count(a)}
  IN IF angles = {} THEN "null"
     ELSE CHOOSE a \in maxima : \A b \in maxima : firstAt(a) <= firstAt(b)

\* for (const frame of additionalFrames.reverse()) { if (length >= 3) break;
\* if (!framesToUse.includes(frame)) framesToUse.push(frame) }
RECURSIVE addFrames(_, _)
addFrames(framesToUse, additionalFrames) ==
  IF additionalFrames = <<>> \/ Len(framesToUse) >= 3 THEN framesToUse
  ELSE addFrames(IF \E i \in 1..Len(framesToUse) : framesToUse[i] = Head(additionalFrames)
                 THEN framesToUse
                 ELSE Append(framesToUse, Head(additionalFrames)),
                 Tail(additionalFrames))

\* framesToUse and anglesUsed of analyzeTraffic
selectFrames(buf, preserved, t) ==
  LET b == selectAngle(buf, preserved, t, "bridge")
      p == selectAngle(buf, preserved, t, "processing")
      w == selectAngle(buf, preserved, t, "wide")
      byPriority == b.frames \o p.frames \o w.frames
      best == bestAngle(usefulFrames(buf))
      ofBest == FramesOfAngle(usefulFrames(buf), best)
  IN [frames |-> IF Len(byPriority) < 3 /\ best # "null" /\ Len(ofBest) > 1
                 THEN addFrames(byPriority, Reverse(SubSeq(ofBest, 1, Len(ofBest) - 1)))
                 ELSE byPriority,
      notes |-> b.notes \o p.notes \o w.notes]

\* analyzeTraffic(userQuestion), up to the frames it hands to the detector and
\* the analysis backend
analyzeTraffic ==
  /\ returned' =
       IF Len(screenshotBuffer) = 0
       THEN [NoReturn EXCEPT !.op = "analyzeTraffic"]
       ELSE IF /\ Len(usefulFrames(screenshotBuffer)) = 0
               /\ \A a \in PreservedKeys : preservedFrames[a] = NoFrame
       THEN [NoReturn EXCEPT !.op = "analyzeTraffic"]
       ELSE [op |-> "analyzeTraffic", ok |-> TRUE, screenshot |-> 0,
             frames |-> selectFrames(screenshotBuffer, preservedFrames, now).frames,
             notes |-> selectFrames(screenshotBuffer, preservedFrames, now).notes]
  /\ UNCHANGED <<now, isCapturing, isClassifying, screenshotBuffer, preservedFrames,
                 cameraStatus, lastCapturedAngle, lastAngleChangeTime, call, nCaptures,
                 nAdvances, committed, lastDecision, lastOutcome, lastImage,
                 trendVars, cacheVars>>

\* GET /api/frames, one angle: the most recent fresh frame of the buffer, else
\* the preserved frame when it is at most MAX_PRESERVED_AGE_MS old (isStale when
\* older than FRESH_THRESHOLD_MS)
displayAngle(buf, preserved, t, a) ==
  LET fresh == SelectSeq(FramesOfAngle(buf, a), LAMBDA f : isFrameFresh(f, t))
  IN IF Len(fresh) > 0
     THEN [frames |-> <<Last(fresh)>>, notes |-> <<"fresh">>]
     ELSE IF preserved[a] # NoFrame /\ t - preserved[a].timestamp <= MAX_PRESERVED_AGE_MS
     THEN [frames |-> <<preserved[a]>>,
           notes |-> <<IF t - preserved[a].timestamp > FRESH_THRESHOLD_MS
                       THEN "stale" ELSE "fresh">>]
     ELSE [frames |-> <<>>, notes |-> <<>>]

\* mutant of apiFrames: a preserved frame past its display window is deleted
apiFramesDeletesStale ==
  /\ returned' =
       LET b == displayAngle(screenshotBuffer, preservedFrames, now, "bridge")
           p == displayAngle(screenshotBuffer, preservedFrames, now, "processing")
           w == displayAngle(screenshotBuffer, preservedFrames, now, "wide")
       IN [op |-> "apiFrames", ok |-> TRUE, screenshot |-> 0,
           frames |-> b.frames \o p.frames \o w.frames,
           notes |-> b.notes \o p.notes \o w.notes]
  /\ preservedFrames' =
       [a \in DOMAIN preservedFrames |->
          IF now - preservedFrames[a].timestamp > MAX_PRESERVED_AGE_MS
          THEN NoFrame ELSE preservedFrames[a]]
  /\ UNCHANGED <<now, isCapturing, isClassifying, screenshotBuffer,
                 cameraStatus, lastCapturedAngle, lastAngleChangeTime, call, nCaptures,
                 nAdvances, committed, lastDecision, lastOutcome, lastImage,
                 trendVars, cacheVars>>

\* GET /api/frames: the frames in the order bridge, processing, wide
apiFrames ==
  /\ returned' =
       LET b == displayAngle(screenshotBuffer, preservedFrames, now, "bridge")
           p == displayAngle(screenshotBuffer, preservedFrames, now, "processing")
           w == displayAngle(screenshotBuffer, preservedFrames, now, "wide")
       IN [op |-> "apiFrames", ok |-> TRUE, screenshot |-> 0,
           frames |-> b.frames \o p.frames \o w.frames,
           notes |-> b.notes \o p.notes \o w.notes]
  /\ UNCHANGED <<now, isCapturing, isClassifying, screenshotBuffer, preservedFrames,
                 cameraStatus, lastCapturedAngle, lastAngleChangeTime, call, nCaptures,
                 nAdvances, committed, lastDecision, lastOutcome, lastImage,
                 trendVars, cacheVars>>

\* getLatestScreenshot, and the same expression in captureFrame (0 for null)
getLatestScreenshot(buf) ==
  IF Len(buf) > 0 THEN buf[Len(buf)].screenshot ELSE 0

\* mutant of captureFrameBusy: the guard does not stop a second subprocess
captureFrameBusyStarts ==
  /\ isCapturing
  /\ \E c \in Calls : Spawn(c, "req")

\* captureFrame called while isCapturing: no subprocess, the latest screenshot
captureFrameBusy ==
  /\ isCapturing
  /\ returned' = [NoReturn EXCEPT !.op = "captureFrame", !.ok = TRUE,
                                  !.screenshot = getLatestScreenshot(screenshotBuffer)]
  /\ UNCHANGED <<now, isCapturing, isClassifying, screenshotBuffer, preservedFrames,
                 cameraStatus, lastCapturedAngle, lastAngleChangeTime, call, nCaptures,
                 nAdvances, committed, lastDecision, lastOutcome, lastImage,
                 trendVars, cacheVars>>

\* smartCapture called while isCapturing: the tick is skipped
smartCaptureBusy ==
  /\ isCapturing
  /\ returned' = [NoReturn EXCEPT !.op = "smartCapture"]
  /\ UNCHANGED <<now, isCapturing, isClassifying, screenshotBuffer, preservedFrames,
                 cameraStatus, lastCapturedAngle, lastAngleChangeTime, call, nCaptures,
                 nAdvances, committed, lastDecision, lastOutcome, lastImage,
                 trendVars, cacheVars>>

ReadersAdvanceTime(d) ==
  /\ d \in TimeSteps
  /\ Advance(d, MaxAdvancesReaders)

NextReaders ==
  \/ \E a \in PreservedKeys : \E age \in DbAges :
       loadPreservedFramesFromDB([k \in {a} |-> StartTime - age])
  \/ \E c \in Calls : captureFrame(c)
  \/ \E c \in Calls : CaptureFrameOnClose(c)
  \/ \E c \in Calls : CaptureFrameClassified(c)
  \/ \E c \in Calls : CaptureFrameUploaded(c)
  \/ \E c \in Calls : CaptureFrameOnError(c)
  \/ \E c \in Calls : CaptureFrameOnTimeout(c)
  \/ captureFrameBusy
  \/ smartCaptureBusy
  \/ analyzeTraffic
  \/ apiFrames
  \/ \E d \in TimeSteps : ReadersAdvanceTime(d)

SpecReaders == Init /\ [][NextReaders]_vars


(***************************************************************************)
(* The frame selection on its own.  The selection is a function of the     *)
(* buffer, the preserved store and Date.now(), so it is studied from the   *)
(* states a server is in after a restart that restored old preserved       *)
(* frames and then committed up to MaxBuffered request captures, one tick  *)
(* apart, the last one a tick ago: every buffer of that length over the    *)
(* four angle types, each preserved slot holding the last buffered frame   *)
(* of its angle or, when the buffer has none, nothing or a restored frame. *)
(* From there only time passes and analysis requests arrive.               *)
(***************************************************************************)
\* ages, at StartTime, of the restored preserved frames: one tick short of the
\* 10 minutes of MAX_FRAME_AGE_MS, and 100 s more
SelectionAges == {580000, 680000}

\* the buffer after captures classified angles[1], angles[2], ... were committed
BufferOf(angles) ==
  [i \in 1..Len(angles) |->
     [screenshot |-> i, timestamp |-> StartTime - (Len(angles) - i + 1) * TICK_MS,
      angleType |-> angles[i]]]

\* cameraStatus after recordCaptureSuccess for each frame of the buffer in turn
RECURSIVE StatusAfter(_, _)
StatusAfter(cs, frames) ==
  IF frames = <<>> THEN cs
  ELSE StatusAfter(recordCaptureSuccess(cs, Head(frames).angleType,
                                        Head(frames).timestamp + TICK_MS),
                   Tail(frames))

\* the states after a restart that restored preserved frames of the given ages
\* and up to maxLen committed request captures
InitBuffered(maxLen, ages) ==
  /\ now = StartTime
  /\ isCapturing = FALSE
  /\ isClassifying = FALSE
  /\ \E n \in 0..maxLen : \E angles \in [1..n -> ANGLE_TYPES] :
       screenshotBuffer = BufferOf(angles)
  /\ committed = screenshotBuffer
  /\ preservedFrames \in [PreservedKeys ->
       {NoFrame} \cup {screenshotBuffer[i] : i \in 1..Len(screenshotBuffer)}
         \cup {[screenshot |-> 0, timestamp |-> StartTime - age, angleType |-> a] :
                 age \in ages, a \in PreservedKeys}]
  /\ \A a \in PreservedKeys :
       IF Len(FramesOfAngle(screenshotBuffer, a)) > 0
       THEN preservedFrames[a] = Last(FramesOfAngle(screenshotBuffer, a))
       ELSE preservedFrames[a] = NoFrame
              \/ (preservedFrames[a].angleType = a /\ preservedFrames[a].screenshot = 0)
  /\ cameraStatus =
       StatusAfter([consecutiveFailures |-> 0, angleHistory |-> <<>>,
                    lastSuccessfulCapture |-> 0, status |-> "operational",
                    stuckAngle |-> "null"], screenshotBuffer)
  /\ lastCapturedAngle = "null"
  /\ lastAngleChangeTime = 0
  /\ call = [c \in Calls |-> IdleCall]
  /\ nCaptures = Len(screenshotBuffer)
  /\ nAdvances = 0
  /\ lastDecision = [angleType |-> "null", saved |-> FALSE]
  /\ lastOutcome = IF screenshotBuffer = <<>> THEN "none"
                   ELSE Last(screenshotBuffer).angleType
  /\ lastImage = IF screenshotBuffer = <<>> THEN [screenshot |-> 0, size |-> 0]
                 ELSE [screenshot |-> Len(screenshotBuffer),
                       size |-> BLUR_THRESHOLD_KB * 1024]
  /\ returned = NoReturn
  /\ readings = <<>>
  /\ added = <<>>
  /\ trend = NoTrend
  /\ InitCacheVars

InitSelection == InitBuffered(MaxBuffered, SelectionAges)

SelectionAdvanceTime(d) ==
  /\ d \in TimeSteps
  /\ Advance(d, MaxAdvancesSelection)

NextSelection ==
  \/ analyzeTraffic
  \/ \E d \in TimeSteps : SelectionAdvanceTime(d)

SpecSelection == InitSelection /\ [][NextSelection]_vars


(***************************************************************************)
(* The trend tracker on its own: the piece of an analysis request that     *)
(* runs once the detector has answered.  Requests arrive as time passes.   *)
(***************************************************************************)
\* trafficHistory.addReading(detectorCounts, canopyDetectorCounts); trendInfo =
\* analyzeTrends(); trendSummary = getTrendSummary()
analyzeTrafficTrends(detectorCounts, canopyDetectorCounts) ==
  /\ Len(added) < MaxReadings
  /\ readings' = addReading(readings, Reading(detectorCounts, canopyDetectorCounts, now))
  /\ added' = Append(added, Reading(detectorCounts, canopyDetectorCounts, now))
  /\ trend' = [trendInfo |-> analyzeTrends(readings'),
               trendSummary |-> getTrendSummary(readings')]
  /\ UNCHANGED <<now, isCapturing, isClassifying, screenshotBuffer, preservedFrames,
                 cameraStatus, lastCapturedAngle, lastAngleChangeTime, call, nCaptures,
                 nAdvances, committed, lastDecision, lastOutcome, returned, lastImage,
                 cacheVars>>

TrendsAdvanceTime(d) ==
  /\ d \in TimeSteps
  /\ Advance(d, MaxAdvancesTrends)

NextTrends ==
  \/ \E b \in BridgeCounts : \E c \in CanopyCounts : analyzeTrafficTrends(b, c)
  \/ \E d \in TimeSteps : TrendsAdvanceTime(d)

SpecTrends == Init /\ [][NextTrends]_vars


(***************************************************************************)
(* The analysis cache.  analyzeTraffic is an async function: a call runs    *)
(* to its first await (a detector call, or the backend call when no bridge *)
(* or processing frame was selected), resumes when the detector has        *)
(* answered (the two detector calls are awaited one after the other with   *)
(* no shared state touched in between, so they resume as one step) and     *)
(* resumes again when the backend has answered or thrown.  Other calls     *)
(* start, and time passes, while one is suspended.  The runs start from    *)
(* the states after up to MaxBufferedCache committed captures.             *)
(***************************************************************************)
\* what the detector service may answer: null (an error) or counts
DetectorAnswers == {NoCounts, [LS_to_SA |-> 7, SA_to_LS |-> 3, total |-> 10]}

\* { success: false, message: ... }, the three failures analyzeTraffic returns
NoFeed == [NoAnalysis EXCEPT !.message = "No camera feed available"]
LimitedView == [NoAnalysis EXCEPT !.message = "Camera view is currently limited"]
Unavailable == [NoAnalysis EXCEPT !.message = "Analysis temporarily unavailable"]

\* framesToUse.find(f => f.angleType === a) is defined
HasFrameOf(frames, a) == \E i \in 1..Len(frames) : frames[i].angleType = a

\* trafficHistory.addReading(detectorCounts, canopyDetectorCounts); trendInfo =
\* analyzeTrends(); trendSummary = getTrendSummary()
AddTrendReading(detectorCounts, canopyDetectorCounts) ==
  /\ readings' = addReading(readings, Reading(detectorCounts, canopyDetectorCounts, now))
  /\ added' = Append(added, Reading(detectorCounts, canopyDetectorCounts, now))
  /\ trend' = [trendInfo |-> analyzeTrends(readings'),
               trendSummary |-> getTrendSummary(readings')]

\* the analysis object built from the backend's response
Analysis(rq, t, cs) ==
  [success |-> TRUE,
   message |-> IF rq.userQuestion THEN "answer" ELSE "report",
   timestamp |-> t,
   frameTimestamp |-> Last(rq.framesToUse).timestamp,
   framesAnalyzed |-> Len(rq.framesToUse),
   cached |-> FALSE,
   cameraStatus |-> cs.status]

\* analyzeTraffic(userQuestion) from its call to its first await or return
analyzeTrafficCall(r, userQuestion) ==
  /\ request[r].pc = "idle"
  /\ \A q \in Requests : q < r => request[q].pc # "idle"
  /\ nRequests < MaxRequests
  /\ nRequests' = nRequests + 1
  /\ IF Len(screenshotBuffer) = 0
     THEN /\ reply' = [id |-> nRequests', userQuestion |-> userQuestion, value |-> NoFeed]
          /\ UNCHANGED <<request, trendVars>>
     ELSE IF /\ ~userQuestion
             /\ latestAnalysis # NoAnalysis
             /\ now - lastAnalysisTime < cacheTimeout
     THEN /\ reply' = [id |-> nRequests', userQuestion |-> userQuestion,
                       value |-> latestAnalysis]
          /\ UNCHANGED <<request, trendVars>>
     ELSE IF /\ Len(usefulFrames(screenshotBuffer)) = 0
             /\ \A a \in PreservedKeys : preservedFrames[a] = NoFrame
     THEN /\ reply' = [id |-> nRequests', userQuestion |-> userQuestion,
                       value |-> LimitedView]
          /\ UNCHANGED <<request, trendVars>>
     ELSE LET framesToUse == selectFrames(screenshotBuffer, preservedFrames, now).frames
              rq == [pc |-> "detecting", id |-> nRequests', userQuestion |-> userQuestion,
                     now |-> now, framesToUse |-> framesToUse]
          IN /\ reply' = reply
             /\ IF HasFrameOf(framesToUse, "bridge") \/ HasFrameOf(framesToUse, "processing")
                THEN /\ request' = [request EXCEPT ![r] = rq]
                     /\ UNCHANGED trendVars
                ELSE /\ request' = [request EXCEPT ![r] = [rq EXCEPT !.pc = "asking"]]
                     /\ AddTrendReading(NoCounts, NoCounts)
  /\ UNCHANGED <<latestAnalysis, lastAnalysisTime, storedAt>>
  /\ UNCHANGED <<now, isCapturing, isClassifying, screenshotBuffer, preservedFrames,
                 cameraStatus, lastCapturedAngle, lastAngleChangeTime, call, nCaptures,
                 nAdvances, committed, lastDecision, lastOutcome, returned, lastImage>>

\* analyzeTraffic from the detector's answers to the await of the backend call
analyzeTrafficDetected(r, detectorCounts, canopyDetectorCounts) ==
  /\ request[r].pc = "detecting"
  /\ detectorCounts \in DetectorAnswers
  /\ canopyDetectorCounts \in DetectorAnswers
  /\ ~HasFrameOf(request[r].framesToUse, "bridge") => detectorCounts = NoCounts
  /\ ~HasFrameOf(request[r].framesToUse, "processing") => canopyDetectorCounts = NoCounts
  /\ AddTrendReading(detectorCounts, canopyDetectorCounts)
  /\ request' = [request EXCEPT ![r].pc = "asking"]
  /\ UNCHANGED <<latestAnalysis, lastAnalysisTime, storedAt, nRequests, reply>>
  /\ UNCHANGED <<now, isCapturing, isClassifying, screenshotBuffer, preservedFrames,
                 cameraStatus, lastCapturedAngle, lastAngleChangeTime, call, nCaptures,
                 nAdvances, committed, lastDecision, lastOutcome, returned, lastImage>>

\* analyzeTraffic from the backend's response (or its exception, or the one
\* that latestFrame.timestamp throws when framesToUse is empty) to its return
analyzeTrafficAnswered(r, responded) ==
  /\ request[r].pc = "asking"
  /\ IF responded /\ request[r].framesToUse # <<>>
     THEN LET analysis == Analysis(request[r], now, cameraStatus)
          IN /\ reply' = [id |-> request[r].id, userQuestion |-> request[r].userQuestion,
                          value |-> analysis]
             /\ IF ~request[r].userQuestion
                THEN /\ latestAnalysis' = analysis
                     /\ lastAnalysisTime' = request[r].now
                     /\ storedAt' = now
                ELSE UNCHANGED <<latestAnalysis, lastAnalysisTime, storedAt>>
     ELSE /\ reply' = [id |-> request[r].id, userQuestion |-> request[r].userQuestion,
                       value |-> Unavailable]
          /\ UNCHANGED <<latestAnalysis, lastAnalysisTime, storedAt>>
  /\ request' = [request EXCEPT ![r] = IdleRequest]
  /\ UNCHANGED <<nRequests, trendVars>>
  /\ UNCHANGED <<now, isCapturing, isClassifying, screenshotBuffer, preservedFrames,
                 cameraStatus, lastCapturedAngle, lastAngleChangeTime, call, nCaptures,
                 nAdvances, committed, lastDecision, lastOutcome, returned, lastImage>>

\* a first start: no row in the preserved_frames table
InitCache == InitBuffered(MaxBufferedCache, {})

\* the steps by which time is observed to advance here: a tick, and a tick less
\* than the cache timeout
CacheTimeSteps == {TICK_MS, cacheTimeout - TICK_MS}

CacheAdvanceTime(d) ==
  /\ d \in CacheTimeSteps
  /\ Advance(d, MaxAdvancesCache)

NextCache ==
  \/ \E r \in Requests : \E userQuestion \in BOOLEAN : analyzeTrafficCall(r, userQuestion)
  \/ \E r \in Requests : \E b, c \in DetectorAnswers : analyzeTrafficDetected(r, b, c)
  \/ \E r \in Requests : \E responded \in BOOLEAN : analyzeTrafficAnswered(r, responded)
  \/ \E d \in CacheTimeSteps : CacheAdvanceTime(d)

SpecCache == InitCache /\ [][NextCache]_vars


(***************************************************************************)
(* Captures whose subprocess hangs: it never exits on its own, so its      *)
(* close event comes only after a kill, by the outer timer (SIGKILL) or by *)
(* spawn's timeout option (SIGTERM at 30000 ms).  Time passes while a      *)
(* timer or a timeout is pending, due timers fire and the close event of a *)
(* killed subprocess is delivered.                                         *)
(***************************************************************************)
\* mutant of Killed: spawn without its timeout option
KilledByTimerOnly(c) == call[c].pc = "closing"

\* the subprocess of the call c has been killed
Killed(c) ==
  \/ call[c].pc = "closing"
  \/ call[c].pc = "ffmpeg" /\ now >= call[c].start + SPAWN_TIMEOUT_MS

HungCaptureFrameOnClose(c) ==
  /\ Killed(c)
  /\ CaptureFrameOnClose(c)

HungSmartCaptureOnClose(c) ==
  /\ Killed(c)
  /\ SmartCaptureOnClose(c)

HungAdvanceTime(d) ==
  /\ d = TICK_MS
  /\ Deadlines # {}
  /\ Advance(d, nAdvances + 1)

NextHung ==
  \/ \E c \in Calls : captureFrame(c)
  \/ \E c \in Calls : smartCapture(c)
  \/ \E c \in Calls : HungCaptureFrameOnClose(c)
  \/ \E c \in Calls : HungSmartCaptureOnClose(c)
  \/ \E c \in Calls : CaptureFrameOnTimeout(c)
  \/ \E c \in Calls : SmartCaptureOnTimeout(c)
  \/ \E d \in TimeSteps : HungAdvanceTime(d)

SpecHung ==
  /\ Init
  /\ [][NextHung]_vars
  /\ WF_vars(\E c \in Calls : HungCaptureFrameOnClose(c))
  /\ WF_vars(\E c \in Calls : HungSmartCaptureOnClose(c))
  /\ WF_vars(\E c \in Calls : CaptureFrameOnTimeout(c))
  /\ WF_vars(\E c \in Calls : SmartCaptureOnTimeout(c))
  /\ WF_vars(\E d \in TimeSteps : HungAdvanceTime(d))


(***************************************************************************)
(* The scheduler kept running: setInterval fires a tick every TICK_MS as   *)
(* long as the server runs, a started subprocess ends, and the awaited     *)
(* classification and upload calls return, so each of these steps is taken *)
(* once it stays possible.                                                 *)
(***************************************************************************)
MaxAdvancesRecovery == 2

RecoveryAdvanceTime(d) ==
  /\ d \in TimeSteps
  /\ Advance(d, MaxAdvancesRecovery)

NextRecovery ==
  \/ \E c \in Calls : smartCapture(c)
  \/ \E c \in Calls : SmartCaptureOnClose(c)
  \/ \E c \in Calls : SmartCaptureClassified(c)
  \/ \E c \in Calls : SmartCaptureUploaded(c)
  \/ \E c \in Calls : SmartCaptureOnError(c)
  \/ \E c \in Calls : SmartCaptureOnTimeout(c)
  \/ \E d \in TimeSteps : RecoveryAdvanceTime(d)

SpecRecovery ==
  /\ Init
  /\ [][NextRecovery]_vars
  /\ WF_vars(\E c \in Calls : smartCapture(c))
  /\ WF_vars(\E c \in Calls : SmartCaptureOnClose(c))
  /\ WF_vars(\E c \in Calls : SmartCaptureClassified(c))
  /\ WF_vars(\E c \in Calls : SmartCaptureUploaded(c))
  /\ WF_vars(\E c \in Calls : SmartCaptureOnTimeout(c))


(***************************************************************************)
(* Properties.                                                             *)
(***************************************************************************)
\* the angle of the most recently committed non-useless frame ("null" if none)
LastCommittedAngle ==
  LET useful == {i \in 1..Len(committed) : committed[i].angleType # "useless"}
  IN IF useful = {} THEN "null"
     ELSE committed[CHOOSE i \in useful : \A j \in useful : j <= i].angleType

\* no commit is between its push and its trim
NoCommitInProgress == \A c \in Calls : call[c].pc # "uploading"

\* the last STUCK_THRESHOLD entries of angleHistory are all the category a
StreakOf(a) ==
  /\ Len(cameraStatus.angleHistory) >= STUCK_THRESHOLD
  /\ \A i \in 1..Len(cameraStatus.angleHistory) :
       i > Len(cameraStatus.angleHistory) - STUCK_THRESHOLD
         => cameraStatus.angleHistory[i] = a

\* in this step the scheduler tick c gets its classification and decides
TickDecides(c) ==
  /\ call[c].kind = "tick"
  /\ call[c].pc = "classifying"
  /\ call'[c].pc # "classifying"

\* C1: at most one ffmpeg frame-grab subprocess is in flight at any time,
\* whatever the interleaving of ticks, requests and the callbacks of earlier
\* captures.
C1_SingleFlight == InFlight <= 1

\* C2: in every reachable state, the states between the awaits of a commit
\* included, the frame buffer holds at most maxBufferSize frames.
C2_BufferBounded == Len(screenshotBuffer) <= maxBufferSize

\* C3: when no commit is in progress, the frame buffer is the last
\* min(n, maxBufferSize) of the n frames committed so far, in commit order.
C3_BufferIsLastCommitted ==
  NoCommitInProgress
    => screenshotBuffer = SliceLast(committed, Min(Len(committed), maxBufferSize))

\* C3 witness: capacity + 1 commits have completed, the first and the last of
\* the same angle (A, B, ..., A), and the oldest has been evicted.
C3_Witness ==
  /\ NoCommitInProgress
  /\ Len(committed) = maxBufferSize + 1
  /\ committed[1].angleType = "bridge"
  /\ Last(committed).angleType = "bridge"
  /\ committed[2].angleType = "processing"
  /\ Len(screenshotBuffer) = maxBufferSize
  /\ screenshotBuffer[1] = committed[2]

\* C4: the frames of the buffer are in strictly increasing capture-timestamp
\* order in every reachable state.
C4_TimestampOrdered ==
  \A i \in 1..(Len(screenshotBuffer) - 1) :
    screenshotBuffer[i].timestamp < screenshotBuffer[i + 1].timestamp

\* C5: health is down exactly when consecutiveFailures >= FAILURE_THRESHOLD,
\* whatever angleHistory contains (down is decided before stuck-on-angle).
C5_DownIffFailures ==
  /\ cameraStatus.status = "down"
       <=> cameraStatus.consecutiveFailures >= FAILURE_THRESHOLD
  /\ cameraStatus.status = "down" => cameraStatus.stuckAngle = "null"

\* C5 witness: three failures on top of a history that is a streak of one angle.
C5_Witness ==
  /\ cameraStatus.consecutiveFailures >= FAILURE_THRESHOLD
  /\ StreakOf("bridge")
  /\ cameraStatus.status = "down"

\* C6: every capture that succeeded and was classified with a camera angle
\* leaves consecutiveFailures at 0 when its handler ends, a tick's discarded
\* repeat of the same category included.
C6_ClassifiedResetsFailures ==
  [][\A c \in Calls :
       (/\ call[c].pc \in {"classifying", "uploading"}
        /\ call'[c].pc \in {"done", "idle"}
        /\ ~(TickDecides(c) /\ lastDecision'.angleType = "useless"))
         => cameraStatus'.consecutiveFailures = 0]_vars

\* C7: when health is not down, it is stuck_on_angle(a) exactly when the last
\* STUCK_THRESHOLD entries of angleHistory all equal a; any other entry among
\* them makes it operational.
C7_StuckIffStreak ==
  cameraStatus.status # "down"
    => /\ \A a \in PreservedKeys :
            (cameraStatus.status = "stuck_on_angle" /\ cameraStatus.stuckAngle = a)
              <=> StreakOf(a)
       /\ cameraStatus.status = "operational" <=> ~ \E a \in PreservedKeys : StreakOf(a)

\* C8: under the scheduler, a tick that finds the angle of the last commit
\* unchanged commits only when more than REFRESH_MS have passed since that
\* commit (ticks that do not overlap another capture).
C8_RefreshSpaced ==
  [][\A c \in Calls :
       (/\ TickDecides(c)
        /\ \A d \in Calls \ {c} : call[d].pc \in {"idle", "done"}
        /\ Len(committed) > 0
        /\ Len(committed') > Len(committed)
        /\ Last(committed').angleType = Last(committed).angleType
        /\ lastCapturedAngle = Last(committed).angleType)
         => Last(committed').timestamp - Last(committed).timestamp > REFRESH_MS]_vars

\* C9: a tick whose frame is classified non-useless, with a category other
\* than that of the most recently committed non-useless frame, is committed
\* (ticks that do not overlap another capture).
C9_ChangedAngleCommitted ==
  [][\A c \in Calls :
       (/\ TickDecides(c)
        /\ \A d \in Calls \ {c} : call[d].pc \in {"idle", "done"}
        /\ lastDecision'.angleType # "useless"
        /\ lastDecision'.angleType # LastCommittedAngle)
         => lastDecision'.saved]_vars

C11_PreservedSlotCategory ==
  /\ DOMAIN preservedFrames = PreservedKeys
  /\ \A a \in PreservedKeys :
       preservedFrames[a] = NoFrame \/ preservedFrames[a].angleType = a

\* C11 witness: after a restart one slot holds the frame restored from the
\* database, another a frame captured since, and a frame classified useless
\* has been committed to the buffer.
C11_Witness ==
  /\ \E a \in PreservedKeys :
       preservedFrames[a] # NoFrame /\ preservedFrames[a].screenshot = 0
  /\ \E a \in PreservedKeys : preservedFrames[a].screenshot > 0
  /\ \E i \in 1..Len(committed) : committed[i].angleType = "useless"

\* C12: a preserved slot that holds a frame is only ever given a frame of the
\* slot's category with a strictly greater capture timestamp, captures that
\* overlap included.
C12_PreservedReplacedByNewer ==
  [][\A a \in PreservedKeys :
       (preservedFrames[a] # NoFrame /\ preservedFrames'[a] # preservedFrames[a])
         => /\ preservedFrames'[a].angleType = a
            /\ preservedFrames'[a].timestamp > preservedFrames[a].timestamp]_vars

\* C12 witness: a slot holds its second frame while another capture, which
\* will replace it next, is awaiting the classifier.
C12_Witness ==
  \E a \in PreservedKeys :
    /\ preservedFrames[a].screenshot > 1
    /\ \E i \in 1..Len(committed) :
         /\ committed[i].angleType = a
         /\ committed[i].timestamp < preservedFrames[a].timestamp
    /\ \E c \in Calls : call[c].pc = "classifying"

ReadBy(op) == returned' # returned /\ returned'.op = op

\* the reader that returns in this step was given the preserved frame of angle a
OfferedPreserved(a) ==
  \E i \in 1..Len(returned'.frames) : returned'.frames[i] = preservedFrames[a]

\* C14: a reader that has no buffered frame of a category to use is given the
\* frame of that category's preserved slot exactly when now - frame.timestamp
\* <= 600000 (analysis) or <= 3600000 (display), the boundary included.
C14_PreservedOfferedWhenFresh ==
  [][\A a \in PreservedKeys :
       preservedFrames[a] # NoFrame
         => /\ (/\ ReadBy("analyzeTraffic")
                 /\ Len(FramesOfAngle(screenshotBuffer, a)) = 0)
                  => (OfferedPreserved(a) <=> now - preservedFrames[a].timestamp <= 600000)
            /\ (/\ ReadBy("apiFrames")
                 /\ \A i \in 1..Len(screenshotBuffer) :
                      screenshotBuffer[i].angleType = a
                        => now - screenshotBuffer[i].timestamp > 600000)
                  => (OfferedPreserved(a)
                        <=> now - preservedFrames[a].timestamp <= 3600000)]_vars

\* C14, the freshness test alone: the same statement for the display reader and
\* for an analysis reader that finds the buffer non-empty.
C14_FreshnessGate ==
  [][\A a \in PreservedKeys :
       preservedFrames[a] # NoFrame
         => /\ (/\ ReadBy("analyzeTraffic")
                 /\ Len(screenshotBuffer) > 0
                 /\ Len(FramesOfAngle(screenshotBuffer, a)) = 0)
                  => (OfferedPreserved(a) <=> now - preservedFrames[a].timestamp <= 600000)
            /\ (/\ ReadBy("apiFrames")
                 /\ \A i \in 1..Len(screenshotBuffer) :
                      screenshotBuffer[i].angleType = a
                        => now - screenshotBuffer[i].timestamp > 600000)
                  => (OfferedPreserved(a)
                        <=> now - preservedFrames[a].timestamp <= 3600000)]_vars

\* in this step the external classifier's call made for the capture c ends by
\* throwing
ClassifierThrows(c) ==
  /\ call[c].pc = "classifying"
  /\ call'[c].pc # "classifying"
  /\ lastOutcome' = "throws"

\* C15: when the external classifier throws or times out, classifyFrameAngle
\* returns useless to its caller (a request's frame is committed as useless, a
\* tick's frame is decided on as useless), releases its guard, and
\* consecutiveFailures is not incremented.
C15_ClassifierFailureIsUseless ==
  [][\A c \in Calls :
       ClassifierThrows(c)
         => /\ cameraStatus'.consecutiveFailures <= cameraStatus.consecutiveFailures
            /\ ~isClassifying'
            /\ call[c].kind = "req"
                 => /\ Len(committed') = Len(committed) + 1
                    /\ Last(committed').angleType = "useless"
            /\ call[c].kind = "tick"
                 => lastDecision' = [angleType |-> "useless", saved |-> FALSE]]_vars

\* C15 witness: the classifier threw on a tick's frame after a capture had
\* failed; the failure count is still 1.
C15_Witness ==
  /\ lastOutcome = "throws"
  /\ lastDecision = [angleType |-> "useless", saved |-> FALSE]
  /\ cameraStatus.consecutiveFailures = 1
  /\ ~isClassifying

\* C16: a failed capture attempt adds exactly one to consecutiveFailures and
\* leaves the buffer and the preserved store unchanged: a step that records a
\* failure adds one and changes neither, and the close event of an attempt
\* whose failure the error handler has recorded does not record it again.
C16_FailureCountedOnce ==
  [][/\ cameraStatus'.consecutiveFailures > cameraStatus.consecutiveFailures
          => /\ cameraStatus'.consecutiveFailures = cameraStatus.consecutiveFailures + 1
             /\ screenshotBuffer' = screenshotBuffer
             /\ preservedFrames' = preservedFrames
     /\ \A c \in Calls :
          (call[c].pc = "errored" /\ call'[c].pc # "errored")
            => cameraStatus'.consecutiveFailures = cameraStatus.consecutiveFailures]_vars

\* C17: at most one call of the external classifier is in progress, and
\* isClassifying is true exactly while one is; a capture whose sharp frame
\* arrives while it is in progress is not sent to the classifier: its frame is
\* useless at once, and the guard stays with the call that holds it.
C17_ClassifierSingleFlight ==
  [][/\ Cardinality({c \in Calls : call'[c].pc = "classifying"}) <= 1
     /\ isClassifying' <=> \E c \in Calls : call'[c].pc = "classifying"
     /\ \A c \in Calls :
          (call[c].pc = "ffmpeg" /\ isClassifying /\ call'[c] # call[c])
            => /\ call'[c].pc # "classifying"
               /\ lastOutcome' = lastOutcome
               /\ isClassifying'
               /\ Len(committed') > Len(committed)
                    => Last(committed').angleType = "useless"
               /\ (call[c].kind = "tick" /\ lastDecision' # lastDecision)
                    => lastDecision'.angleType = "useless"]_vars

\* C17 witness: a classifier call is in progress, none has ended yet, and the
\* sharp frame of a capture that closed meanwhile is in the buffer as useless.
C17_Witness ==
  /\ isClassifying
  /\ lastOutcome = "none"
  /\ \E c \in Calls :
       /\ call[c].pc = "classifying"
       /\ Len(committed) > 0
       /\ Last(committed).angleType = "useless"
       /\ Last(committed).timestamp > call[c].frame.timestamp

\* C18: while the capture guard is held no subprocess is started, and a call
\* of captureFrame or smartCapture made then changes no state: captureFrame
\* returns the screenshot of the last buffer entry (null, here 0, when the
\* buffer is empty) and the tick is skipped.
C18_GuardedCallChangesNothing ==
  [][/\ isCapturing => nCaptures' = nCaptures
     /\ (ReadBy("captureFrame") \/ ReadBy("smartCapture"))
          => /\ isCapturing
             /\ UNCHANGED <<now, isCapturing, isClassifying, screenshotBuffer,
                            preservedFrames, cameraStatus, lastCapturedAngle,
                            lastAngleChangeTime, call, committed, lastDecision,
                            lastOutcome>>
     /\ ReadBy("captureFrame")
          => returned'.screenshot =
               IF Len(screenshotBuffer) = 0 THEN 0
               ELSE screenshotBuffer[Len(screenshotBuffer)].screenshot
     /\ ReadBy("smartCapture") => returned'.screenshot = 0]_vars

\* C18 witness: a capture is in flight, the buffer holds a frame, and a
\* captureFrame call made meanwhile has returned that frame's screenshot.
C18_Witness ==
  /\ isCapturing
  /\ InFlight = 1
  /\ returned.op = "captureFrame"
  /\ Len(screenshotBuffer) > 0
  /\ returned.screenshot = Last(screenshotBuffer).screenshot

\* C19: for every capture, the moment its outer hard-kill timer is due lies
\* strictly after the moment the subprocess's own timeout (spawn's timeout
\* option) is due.
C19_OuterTimerLonger ==
  \A c \in Calls :
    call[c].timer
      => call[c].start + KILL_TIMER_MS > call[c].start + SPAWN_TIMEOUT_MS

\* C20: every capture whose subprocess hangs is completed all the same: the
\* subprocess is killed and its close handler runs, which resolves the call,
\* and the capture guard, whenever it is held, is released again.
C20_HungCaptureCompletes ==
  /\ \A c \in Calls :
       (call[c].pc = "ffmpeg") ~> (call[c].pc \in {"idle", "done"})
  /\ isCapturing ~> ~isCapturing

\* C20 witness: every capture of the run hung, was killed and has completed:
\* each has recorded its failure, no call is open and the guard is free.
C20_Witness ==
  /\ nCaptures = MaxCaptures
  /\ ~isCapturing
  /\ \A c \in Calls : call[c].pc = "idle"
  /\ cameraStatus.consecutiveFailures = MaxCaptures

\* in this step the close handler of the capture c reads an image file that the
\* quality filter rejects (its size is below BLUR_THRESHOLD_KB kilobytes)
FilterRejects(c) ==
  /\ call[c].pc = "ffmpeg"
  /\ lastImage' # lastImage
  /\ lastImage'.screenshot = call[c].frame.screenshot
  /\ lastImage'.size < BLUR_THRESHOLD_KB * 1024

\* C21: a captured frame that the quality filter rejects is not sent to the
\* classifier (no call of it starts or ends, its guard is untouched), and the
\* buffer, the preserved store, the health counters and the scheduler's
\* last-angle state are left as they were; the call ends there.
C21_BlurryFrameDropped ==
  [][\A c \in Calls :
       FilterRejects(c)
         => /\ call'[c].pc \in {"done", "idle"}
            /\ UNCHANGED <<isClassifying, lastOutcome, screenshotBuffer, committed,
                           preservedFrames, cameraStatus, lastCapturedAngle,
                           lastAngleChangeTime, lastDecision>>]_vars

\* C21 witness: the latest capture's image was rejected by the filter while the
\* buffer, the preserved store and the angle history hold entries and the
\* scheduler has seen an angle.
C21_Witness ==
  /\ lastImage.screenshot = nCaptures
  /\ lastImage.size < BLUR_THRESHOLD_KB * 1024
  /\ \A c \in Calls : call[c].pc \in {"idle", "done"}
  /\ Len(screenshotBuffer) > 0
  /\ \E a \in PreservedKeys : preservedFrames[a] # NoFrame
  /\ Len(cameraStatus.angleHistory) > 0
  /\ lastCapturedAngle # "null"

\* the frame with the latest capture timestamp of a non-empty list of frames
MostRecent(frames) ==
  frames[CHOOSE i \in 1..Len(frames) :
           \A j \in 1..Len(frames) : frames[j].timestamp <= frames[i].timestamp]

\* the frame the category a contributes to a selection made now: the most
\* recent buffered frame of a, else the preserved frame of a within the 10
\* minutes, else none
ByCategory(a) ==
  IF Len(FramesOfAngle(screenshotBuffer, a)) > 0
  THEN <<MostRecent(FramesOfAngle(screenshotBuffer, a))>>
  ELSE IF preservedFrames[a] # NoFrame /\ now - preservedFrames[a].timestamp <= 600000
  THEN <<preservedFrames[a]>>
  ELSE <<>>

\* the frames gathered by category, in the order bridge, processing, wide
GatheredByCategory ==
  ByCategory("bridge") \o ByCategory("processing") \o ByCategory("wide")

\* in this step an analysis request selects its frames
Selects == ReadBy("analyzeTraffic") /\ returned'.ok

\* C22: the list of frames an analysis request selects has at most 3 frames,
\* no frame twice and no useless frame, and begins with the frames gathered by
\* category in the order bridge, processing, wide: per category the most recent
\* buffered frame, else the preserved frame if it is at most 600000 ms old.
C22_SelectionByCategory ==
  [][Selects
       => LET sel == returned'.frames
          IN /\ Len(sel) <= 3
             /\ \A i, j \in 1..Len(sel) : i # j => sel[i] # sel[j]
             /\ \A i \in 1..Len(sel) : sel[i].angleType # "useless"
             /\ Len(sel) >= Len(GatheredByCategory)
             /\ SubSeq(sel, 1, Len(GatheredByCategory)) = GatheredByCategory]_vars

\* C22 witness: a selection of 3 frames that begins with a preserved frame which
\* is exactly 600000 ms old, made from a buffer that holds a useless frame and
\* more frames of one category than the selection has room for.
C22_Witness ==
  /\ returned.op = "analyzeTraffic"
  /\ returned.ok
  /\ Len(returned.frames) = 3
  /\ returned.frames[1].screenshot = 0
  /\ now - returned.frames[1].timestamp = 600000
  /\ \E i \in 1..Len(screenshotBuffer) : screenshotBuffer[i].angleType = "useless"
  /\ \E a \in PreservedKeys : Len(FramesOfAngle(screenshotBuffer, a)) = 3

\* C23: when fewer than 3 frames were gathered by category, the selection is
\* those frames followed by the remaining buffered frames of the category with
\* the most buffered entries, oldest first, frames already selected skipped,
\* until 3 frames are selected or that category has no more.
C23_BackfillOldestFirst ==
  [][Selects
       => LET useful == usefulFrames(screenshotBuffer)
              best == bestAngle(useful)
          IN returned'.frames =
               IF Len(GatheredByCategory) < 3 /\ best # "null"
               THEN addFrames(GatheredByCategory, FramesOfAngle(useful, best))
               ELSE GatheredByCategory]_vars

\* the preserved slot a holds a frame within the 10 minutes of the fresh window
FreshPreserved(a) ==
  preservedFrames[a] # NoFrame /\ now - preservedFrames[a].timestamp <= 600000

\* C24: an analysis request reports no data only if the buffer has no
\* non-useless frame and no preserved frame is within the fresh window; when
\* the buffer is empty and a preserved frame is fresh, that frame is selected.
C24_NoDataOnlyWhenNothingUsable ==
  [][ReadBy("analyzeTraffic")
       => /\ ~returned'.ok
               => /\ Len(usefulFrames(screenshotBuffer)) = 0
                  /\ \A a \in PreservedKeys : ~FreshPreserved(a)
          /\ screenshotBuffer = <<>>
               => \A a \in PreservedKeys : FreshPreserved(a) => OfferedPreserved(a)]_vars

\* C25: two frame selections for analysis with no commit between them return
\* the same frames in the same order, however much time passes between the two
\* requests (the buffer and the preserved store are the same at both).
C25_SelectionIdempotent ==
  [][(/\ returned.op = "analyzeTraffic"
      /\ ReadBy("analyzeTraffic")
      /\ committed' = committed
      /\ screenshotBuffer' = screenshotBuffer
      /\ preservedFrames' = preservedFrames)
       => returned'.frames = returned.frames]_vars

\* C26: after any sequence of addReading calls the trend window holds at most
\* MAX_HISTORY readings, and they are the most recently added ones in the order
\* in which they were added.
C26_WindowIsLastAdded ==
  /\ Len(readings) <= MAX_HISTORY
  /\ readings = SliceLast(added, MAX_HISTORY)

\* C26 witness: one reading more than MAX_HISTORY has been added, the first two
\* of them different, and the window now begins with the second.
C26_Witness ==
  /\ Len(added) = MAX_HISTORY + 1
  /\ added[1] # added[2]
  /\ Len(readings) = MAX_HISTORY
  /\ readings[1] = added[2]
  /\ Last(readings) = Last(added)

\* the labels analyzeTrends gives to a direction and to the flow speed
TrendLabels == {"increasing", "decreasing", "stable"}
FlowLabels == {"slow", "very_slow", "moving_well", "normal"}

\* C27: with fewer than 2 readings in the trend window, analyzeTrends returns the
\* unknown result (trend unknown, confidence low) and getTrendSummary the empty
\* string, and no direction trend or flow-speed label is produced; so did the
\* request that added the only reading.
C27_UnknownBelowTwoReadings ==
  Len(readings) < 2
    => /\ analyzeTrends(readings).trend = "unknown"
       /\ analyzeTrends(readings).confidence = "low"
       /\ analyzeTrends(readings).lsToSa.trend \notin TrendLabels
       /\ analyzeTrends(readings).saToLs.trend \notin TrendLabels
       /\ analyzeTrends(readings).flowSpeed \notin FlowLabels
       /\ getTrendSummary(readings) = NoSummary
       /\ Len(added) > 0
            => /\ trend.trendInfo = analyzeTrends(readings)
               /\ trend.trendSummary = NoSummary

\* C27 witness: the first request has added a reading with bridge counts of
\* total 30 and was given the unknown result and the empty summary.
C27_Witness ==
  /\ Len(added) = 1
  /\ Len(readings) = 1
  /\ readings[1].bridge # NoBridge
  /\ readings[1].bridge.total = 30
  /\ trend.trendInfo.trend = "unknown"
  /\ trend.trendInfo.confidence = "low"
  /\ trend.trendSummary = NoSummary

\* the readings analyzeTrends compares: the last TREND_WINDOW ones
RecentReadings == SliceLast(readings, TREND_WINDOW)

\* C28: when the oldest or the newest reading of the trailing sub-window has no
\* bridge counts (the detector returned nothing), the trend result given to the
\* request is the unknown result, not a stable trend with normal flow at medium
\* or high confidence.
C28_UnknownWithoutCounts ==
  (/\ Len(readings) >= 2
   /\ \/ RecentReadings[1].bridge = NoBridge
      \/ Last(RecentReadings).bridge = NoBridge)
    => /\ trend.trendInfo.trend = "unknown"
       /\ ~ (/\ trend.trendInfo.overall = "stable"
             /\ trend.trendInfo.flowSpeed = "normal"
             /\ trend.trendInfo.confidence \in {"medium", "high"})

\* C29: when every reading of the trailing sub-window has the same total count
\* and that count is 10 or more (no variance, high mean), the flow-speed label
\* given to the request is slow or very_slow.
C29_SteadyHighCountIsSlow ==
  (/\ Len(readings) >= 2
   /\ TotalOf(RecentReadings[1]) >= 10
   /\ \A i \in 1..Len(RecentReadings) :
        TotalOf(RecentReadings[i]) = TotalOf(RecentReadings[1]))
    => trend.trendInfo.flowSpeed \in {"slow", "very_slow"}

\* the sum of the squares of the totals of the readings
RECURSIVE SumOfSquaredTotals(_)
SumOfSquaredTotals(rs) ==
  IF rs = <<>> THEN 0
  ELSE TotalOf(Head(rs)) * TotalOf(Head(rs)) + SumOfSquaredTotals(Tail(rs))

\* the variance of the totals of the readings, mean of squares minus square of
\* mean, is above k
VarianceAbove(rs, k) ==
  Len(rs) * SumOfSquaredTotals(rs) - SumTotals(rs) * SumTotals(rs) > k * Len(rs) * Len(rs)

\* C30: when the variance of the totals over the trailing sub-window is above 5
\* and both end readings carry bridge counts, the flow-speed label given to the
\* request is moving_well, whatever the mean.
C30_HighVarianceMovingWell ==
  (/\ Len(readings) >= 2
   /\ RecentReadings[1].bridge # NoBridge
   /\ Last(RecentReadings).bridge # NoBridge
   /\ VarianceAbove(RecentReadings, 5))
    => trend.trendInfo.flowSpeed = "moving_well"

\* C30 witness: a full sub-window with counts at both ends and none in between,
\* a mean total above 15 and a variance above 5, labelled moving_well.
C30_Witness ==
  /\ Len(RecentReadings) = TREND_WINDOW
  /\ RecentReadings[1].bridge # NoBridge
  /\ Last(RecentReadings).bridge # NoBridge
  /\ RecentReadings[2].bridge = NoBridge
  /\ SumTotals(RecentReadings) > 15 * Len(RecentReadings)
  /\ VarianceAbove(RecentReadings, 5)
  /\ trend.trendInfo.flowSpeed = "moving_well"

\* the oldest and the newest reading of the trailing sub-window: the last
\* TREND_WINDOW readings, or all of them when there are fewer
OldestCompared ==
  readings[IF Len(readings) > TREND_WINDOW THEN Len(readings) - TREND_WINDOW + 1 ELSE 1]
NewestCompared == readings[Len(readings)]

\* the tag of a change against the dead-band of 2
TagOf(change, tag) ==
  /\ tag = "increasing" <=> change > 2
  /\ tag = "decreasing" <=> change < -2
  /\ tag = "stable" <=> (change <= 2 /\ change >= -2)

\* C31: for each direction the trend tag given to the request compares the
\* oldest and the newest reading of the trailing sub-window: increasing iff
\* newest - oldest > 2, decreasing iff newest - oldest < -2, stable otherwise,
\* whatever the readings in between (both end readings carrying counts).
C31_DirectionTagFromEnds ==
  (/\ Len(readings) >= 2
   /\ OldestCompared.bridge # NoBridge
   /\ NewestCompared.bridge # NoBridge)
    => /\ TagOf(NewestCompared.bridge.lsToSa - OldestCompared.bridge.lsToSa,
                trend.trendInfo.lsToSa.trend)
       /\ TagOf(NewestCompared.bridge.saToLs - OldestCompared.bridge.saToLs,
                trend.trendInfo.saToLs.trend)
       /\ trend.trendInfo.lsToSa.change
            = NewestCompared.bridge.lsToSa - OldestCompared.bridge.lsToSa
       /\ trend.trendInfo.saToLs.change
            = NewestCompared.bridge.saToLs - OldestCompared.bridge.saToLs

\* C31 witness: the window holds more than TREND_WINDOW readings; LS->SA went
\* from 7 to 10 over the sub-window (tag increasing), the reading before the
\* sub-window had 12 and a reading inside it has no counts.
C31_Witness ==
  /\ Len(readings) > TREND_WINDOW
  /\ readings[1].bridge # NoBridge
  /\ readings[1].bridge.lsToSa = 12
  /\ OldestCompared.bridge # NoBridge
  /\ OldestCompared.bridge.lsToSa = 7
  /\ NewestCompared.bridge # NoBridge
  /\ NewestCompared.bridge.lsToSa = 10
  /\ \E i \in 2..(Len(readings) - 1) : readings[i].bridge = NoBridge
  /\ trend.trendInfo.lsToSa.trend = "increasing"
  /\ trend.trendInfo.saToLs.trend = "increasing"

\* C32: every change to the frame buffer, the preserved store or the health
\* counters is made by a step of a scheduler tick; the capture a request
\* triggers changes none of them.
C32_OnlyTicksWrite ==
  [][(\/ screenshotBuffer' # screenshotBuffer
      \/ preservedFrames' # preservedFrames
      \/ cameraStatus' # cameraStatus)
       => \E c \in Calls : call[c].kind = "tick" /\ call'[c] # call[c]]_vars

\* C33: the stored status and stuck angle are never stale: in every reachable
\* state they equal what updateCameraStatus computes from the current
\* consecutiveFailures and angleHistory.
C33_StatusNeverStale ==
  /\ cameraStatus.status = updateCameraStatus(cameraStatus).status
  /\ cameraStatus.stuckAngle = updateCameraStatus(cameraStatus).stuckAngle

\* a failure has been recorded after the camera was found stuck on an angle,
\* and the status was recomputed to down
C33_Witness ==
  /\ cameraStatus.status = "down"
  /\ Len(cameraStatus.angleHistory) >= STUCK_THRESHOLD
  /\ cameraStatus.angleHistory[Len(cameraStatus.angleHistory)] # "useless"

\* C34: angleHistory holds only non-useless categories: no useless
\* classification is ever pushed onto it.
C34_NoUselessInHistory ==
  \A i \in 1..Len(cameraStatus.angleHistory) : cameraStatus.angleHistory[i] # "useless"

\* C35: the capture guard covers the whole pipeline of a capture: while the
\* frame of one capture is being classified or committed, the subprocess of no
\* other capture is running, and no second capture is in those steps.
C35_GuardCoversPipeline ==
  \A c \in Calls :
    call[c].pc \in {"classifying", "uploading"} =>
      \A d \in Calls \ {c} : call[d].pc \notin {"ffmpeg", "classifying", "uploading"}

\* a capture fails in this step (recordCaptureFailure), or the image it read
\* is rejected as blurry
CaptureNotSharp ==
  \/ cameraStatus'.consecutiveFailures > cameraStatus.consecutiveFailures
  \/ lastImage' # lastImage /\ isImageBlurry(lastImage'.size)

\* health is down and a tick has captured a sharp frame, now with the classifier
SharpTickWhileDown ==
  /\ cameraStatus.status = "down"
  /\ \E c \in Calls : call[c].kind = "tick" /\ call[c].pc = "classifying"

\* the run that refutes C36 goes on unchanged however many ticks follow: a tick
\* that decides on a useless frame leaves the health counters as they were
UselessTickKeepsHealth ==
  [][\A c \in Calls :
       (TickDecides(c) /\ lastDecision' = [angleType |-> "useless", saved |-> FALSE]
          /\ lastDecision' # lastDecision)
         => cameraStatus' = cameraStatus]_vars

C37_SelectedFramesFresh ==
  [][Selects
       => \A i \in 1..Len(returned'.frames) :
            now - returned'.frames[i].timestamp <= MAX_FRAME_AGE_MS]_vars

\* C38: whenever analyzeTraffic passes its two no-data guards, the list of
\* frames it selects holds at least one frame.
C38_SelectionNotEmpty ==
  [][Selects => Len(returned'.frames) >= 1]_vars

\* the variance of the totals of the readings is below k
VarianceBelow(rs, k) ==
  Len(rs) * SumOfSquaredTotals(rs) - SumTotals(rs) * SumTotals(rs) < k * Len(rs) * Len(rs)

\* C39: when the mean total over the trailing sub-window is above 15 and the
\* variance of the totals is below 3 (below 2 included), and both end readings
\* carry bridge counts, the flow-speed label given to the request is very_slow.
C39_VerySlowAboveFifteen ==
  (/\ Len(readings) >= 2
   /\ RecentReadings[1].bridge # NoBridge
   /\ Last(RecentReadings).bridge # NoBridge
   /\ SumTotals(RecentReadings) > 15 * Len(RecentReadings)
   /\ VarianceBelow(RecentReadings, 3))
    => trend.trendInfo.flowSpeed = "very_slow"

\* in this step a call of analyzeTraffic begins, with a user question (q) or
\* without one
CallBegins(q) ==
  /\ nRequests' = nRequests + 1
  /\ IF reply' # reply THEN reply'.userQuestion = q
     ELSE \E r \in Requests : /\ request[r].pc = "idle"
                              /\ request'[r].pc # "idle"
                              /\ request'[r].userQuestion = q

\* the call that begins in this step returns the stored analysis: no frame is
\* selected and no trend reading is added
ReturnsStored ==
  /\ reply'.id = nRequests'
  /\ latestAnalysis # NoAnalysis
  /\ reply'.value = latestAnalysis
  /\ UNCHANGED <<request, readings, added>>

\* an analysis is stored and was stored less than cacheTimeout ago
StoredRecently ==
  /\ latestAnalysis # NoAnalysis
  /\ now - storedAt < cacheTimeout

\* in this step a call of analyzeTraffic made with a user question runs
QuestionCallRuns ==
  \/ CallBegins(TRUE)
  \/ \E r \in Requests : /\ request[r].pc # "idle"
                         /\ request[r].userQuestion
                         /\ request'[r] # request[r]

\* C40: a call of analyzeTraffic without a user question returns the stored
\* analysis, selecting no frame and adding no trend reading, exactly when one
\* was stored less than cacheTimeout ago and the buffer is not empty; a call
\* with a user question never returns the stored analysis and never replaces it.
C40_CacheOnlyForAutomatic ==
  [][/\ CallBegins(FALSE)
          => (ReturnsStored <=> (StoredRecently /\ Len(screenshotBuffer) > 0))
     /\ CallBegins(TRUE) => ~ReturnsStored
     /\ QuestionCallRuns => UNCHANGED <<latestAnalysis, lastAnalysisTime, storedAt>>]_vars

====
